---------------------------- MODULE Spec2Model ----------------------------
(***************************************************************************)
(* Instant Weather notification generator (src/src/App.tsx).               *)
(*                                                                         *)
(* The React component NotificationGenerator keeps its state in useState   *)
(* cells; the severity level, the headline and the description are         *)
(* recomputed from the cells on every render (useMemo).  The cells are the *)
(* variables below, the derived values are operators over them, and every  *)
(* event handler of the component is one action.                           *)
(*                                                                         *)
(* JavaScript strings are modelled as sequences of one-character strings,  *)
(* so that toUpperCase, split, join and the title-case transform are       *)
(* computed character by character as the code computes them.              *)
(***************************************************************************)
EXTENDS Integers, Sequences, FiniteSets, TLC

VARIABLES
    mode,                \* "storm" | "regional"
    province,            \* province code, a string of two characters
    addHashtags,         \* BOOLEAN
    selection,           \* hazard key -> the chosen HazardOption
    status,              \* hazard key -> "detected" | "reported"
    majorPopPath,        \* BOOLEAN, shared by rotation and tornado
    hailMajorPop,        \* BOOLEAN
    hailMax,             \* value of the chosen HAIL_MAX_OPTS entry ("" = none)
    windMax,             \* free text ("" = none)
    rainMax,             \* free text ("" = none)
    funnelSubtype,       \* "supercell" | "non"
    regionalChoice,      \* "funnel" | "severe" | "null"
    regionalTornadoRisk, \* BOOLEAN
    callItems,           \* the argument list of a direct call of joinForHeadline
    callStr,             \* the argument of a direct call of nytTitleCase
    lastSelect,          \* <<groupKey, value>> of the last direct call of updateSelect
    location,            \* "Current location" input
    direction,           \* "Direction of motion" select
    speed,               \* "Speed" input
    towns,               \* "Towns in the path" textarea
    timeWindow,          \* "Time window" / "Timeframe" input
    regions,             \* "Regions impacted" input
    regionalSevere,      \* the "Possible hazards (broad)" checkboxes
    regionalTornadoRiskLevel,  \* "Tornado risk level" select
    funnelReporter,      \* "Reported by" input of the funnel card
    reportNotes,         \* hazard key -> report note
    polyUrl,             \* the polygon link textbox
    polyCoords,          \* <<>> for null, <<coords>> for a parsed polygon
    parseClicked         \* <<link>>: the textbox content at the last "Parse & show" click

previewVars == <<province, addHashtags>>
detailVars == <<hailMax, windMax, rainMax, funnelSubtype>>
regionalVars == <<regionalChoice, regionalTornadoRisk>>
callVars == <<callItems, callStr, lastSelect>>
stormTextVars == <<location, direction, speed, towns, funnelReporter, reportNotes>>
regionalTextVars == <<regions, regionalSevere, regionalTornadoRiskLevel>>
descVars == <<stormTextVars, regionalTextVars, timeWindow>>
polyVars == <<polyUrl, polyCoords, parseClicked>>

\* the cells the derived values read, as one record
cells == [mode |-> mode, province |-> province, addHashtags |-> addHashtags,
          selection |-> selection, status |-> status, majorPopPath |-> majorPopPath,
          hailMajorPop |-> hailMajorPop, hailMax |-> hailMax, windMax |-> windMax,
          rainMax |-> rainMax, funnelSubtype |-> funnelSubtype,
          regionalChoice |-> regionalChoice, regionalTornadoRisk |-> regionalTornadoRisk,
          location |-> location, direction |-> direction, speed |-> speed, towns |-> towns,
          timeWindow |-> timeWindow, regions |-> regions, regionalSevere |-> regionalSevere,
          regionalTornadoRiskLevel |-> regionalTornadoRiskLevel,
          funnelReporter |-> funnelReporter, reportNotes |-> reportNotes]

vars == <<mode, selection, status, majorPopPath, hailMajorPop, previewVars, detailVars,
          regionalVars, callVars, descVars, polyVars>>

-----------------------------------------------------------------------------
(* JavaScript string primitives *)

LowerLetters == <<"a","b","c","d","e","f","g","h","i","j","k","l","m","n","o","p","q","r","s","t","u","v","w","x","y","z">>
UpperLetters == <<"A","B","C","D","E","F","G","H","I","J","K","L","M","N","O","P","Q","R","S","T","U","V","W","X","Y","Z">>

LowerSet == {LowerLetters[i] : i \in 1..Len(LowerLetters)}
UpperSet == {UpperLetters[i] : i \in 1..Len(UpperLetters)}

UpperMap == [c \in LowerSet |->
               UpperLetters[CHOOSE i \in 1..Len(LowerLetters) : LowerLetters[i] = c]]
LowerMap == [c \in UpperSet |->
               LowerLetters[CHOOSE i \in 1..Len(UpperLetters) : UpperLetters[i] = c]]

\* String.prototype.toUpperCase: letters a-z are mapped, every other character
\* is kept.
toUpperCase(s) == [i \in 1..Len(s) |-> IF s[i] \in LowerSet THEN UpperMap[s[i]] ELSE s[i]]

\* String.prototype.toLowerCase
toLowerCase(s) == [i \in 1..Len(s) |-> IF s[i] \in UpperSet THEN LowerMap[s[i]] ELSE s[i]]

\* /[A-Za-z]/.test(w)
hasLetters(w) == \E i \in 1..Len(w) : w[i] \in LowerSet \cup UpperSet

\* the characters the regular expression \s matches, among those that occur
isWhitespace(c) == c \in {" ", "\t", "\n"}

\* Array.prototype.join(sep)
RECURSIVE join(_, _)
join(items, sep) ==
    IF Len(items) = 0 THEN <<>>
    ELSE IF Len(items) = 1 THEN items[1]
    ELSE items[1] \o sep \o join(Tail(items), sep)

\* String.prototype.split(c) for a one-character separator c
RECURSIVE split(_, _)
split(s, c) ==
    IF \A i \in 1..Len(s) : s[i] # c THEN <<s>>
    ELSE LET i == CHOOSE k \in 1..Len(s) : s[k] = c /\ \A m \in 1..(k-1) : s[m] # c
         IN  <<SubSeq(s, 1, i-1)>> \o split(SubSeq(s, i+1, Len(s)), c)

\* String.prototype.split(/\s+/): the separators are the maximal runs of
\* whitespace; a leading or trailing run leaves an empty first or last item.
RECURSIVE splitWhitespace(_)
splitWhitespace(s) ==
    IF \A i \in 1..Len(s) : ~isWhitespace(s[i]) THEN <<s>>
    ELSE LET i == CHOOSE k \in 1..Len(s) :
                     isWhitespace(s[k]) /\ \A m \in 1..(k-1) : ~isWhitespace(s[m])
             rest == {k \in (i+1)..Len(s) : ~isWhitespace(s[k])}
             j == IF rest = {} THEN Len(s) + 1
                  ELSE CHOOSE k \in rest : \A m \in rest : k <= m
         IN  <<SubSeq(s, 1, i-1)>> \o splitWhitespace(SubSeq(s, j, Len(s)))

\* s.startsWith(p) and s.includes(p), used to state properties of the output
startsWith(s, p) == Len(p) <= Len(s) /\ SubSeq(s, 1, Len(p)) = p
includes(s, p) == \E i \in 1..(Len(s) - Len(p) + 1) : SubSeq(s, i, i + Len(p) - 1) = p

-----------------------------------------------------------------------------
(* Static tables *)

HazardKeys == {"funnel", "rotation", "tornado", "hail", "wind", "flooding"}
Modes == {"storm", "regional"}
HazardStatuses == {"detected", "reported"}

\* keys of PROVINCE_TZ, in the order of the province <select>
ProvinceCodes == << <<"O","N">>, <<"Q","C">>, <<"M","B">>, <<"S","K">>, <<"A","B">>, <<"B","C">>, <<"N","B">>,
                    <<"N","S">>, <<"P","E">>, <<"N","L">>, <<"Y","T">>, <<"N","T">>, <<"N","U">> >>

LEVELS == <<
    [id |-> 1, label |-> <<"P","r","e","p","a","r","e">>],
    [id |-> 2, label |-> <<"A","c","t">>],
    [id |-> 3, label |-> <<"C","r","i","t","i","c","a","l">>],
    [id |-> 4, label |-> <<"E","m","e","r","g","e","n","c","y">>] >>

\* HazardOption: value and level (name and phrase are display texts that no
\* modelled function reads).
HAZARDS == [k \in HazardKeys |->
    CASE k = "funnel" -> <<
           [value |-> "none", level |-> 0],
           [value |-> "reported", level |-> 1],
           [value |-> "landspout_reported", level |-> 2] >>
      [] k = "rotation" -> <<
           [value |-> "none", level |-> 0],
           [value |-> "weak", level |-> 1],
           [value |-> "organized", level |-> 2],
           [value |-> "strong", level |-> 2],
           [value |-> "intense", level |-> 3] >>
      [] k = "tornado" -> <<
           [value |-> "none", level |-> 0],
           [value |-> "reported", level |-> 2],
           [value |-> "damaging_reported", level |-> 3] >>
      [] k = "hail" -> <<
           [value |-> "none", level |-> 0],
           [value |-> "subsevere", level |-> 1],
           [value |-> "marginal", level |-> 1],
           [value |-> "severe", level |-> 2],
           [value |-> "large", level |-> 2],
           [value |-> "very_large", level |-> 3] >>
      [] k = "wind" -> <<
           [value |-> "none", level |-> 0],
           [value |-> "sub_severe", level |-> 1],
           [value |-> "severe", level |-> 2],
           [value |-> "damaging", level |-> 3],
           [value |-> "destructive", level |-> 4] >>
      [] k = "flooding" -> <<
           [value |-> "none", level |-> 0],
           [value |-> "isolated", level |-> 1],
           [value |-> "flooding", level |-> 2],
           [value |-> "significant", level |-> 3] >>]

HAZARD_PRIORITY == <<"tornado", "rotation", "hail", "wind", "flooding", "funnel">>

\* the values offered by the <select> of hazard k
OptionValues(k) == {HAZARDS[k][i].value : i \in 1..Len(HAZARDS[k])}

-----------------------------------------------------------------------------
(* Severity resolver *)

Max(a, b) == IF a >= b THEN a ELSE b
Min(a, b) == IF a <= b THEN a ELSE b

levelFromSelection(opt) == opt.level

\* let max = 0; forEach: max = Math.max(max, levelFromSelection(opt))
maxLevel(values) ==
    CHOOSE m \in {0} \cup {levelFromSelection(values[k]) : k \in DOMAIN values} :
        /\ m >= 0
        /\ \A k \in DOMAIN values : levelFromSelection(values[k]) <= m

\* resolveOverallLevel with the clamp Math.min(Math.max(max, 1), 4) left out
resolveOverallLevel_noClamp(values) == maxLevel(values)

\* the id of resolveOverallLevel's result: the largest level, clamped to 1..4
resolveOverallLevel(values) == Min(Max(maxLevel(values), 1), 4)

\* computeFinalLevel with the destructive-wind rule returning 3 instead of 4
computeFinalLevel_windCritical(baseId, sel, majorPop, hailPop, m) ==
    IF m = "regional" THEN 1
    ELSE IF sel["wind"].value = "destructive" THEN 3
    ELSE baseId

\* computeFinalLevel with the regional early return left out
computeFinalLevel_noRegional(baseId, sel, majorPop, hailPop, m) ==
    IF sel["wind"].value = "destructive" THEN 4
    ELSE LET f1 == IF sel["rotation"].value = "strong" /\ majorPop THEN Max(baseId, 3) ELSE baseId
             f2 == IF sel["rotation"].value = "intense" /\ majorPop THEN Max(f1, 4) ELSE f1
             f3 == IF sel["tornado"].value = "reported" /\ majorPop THEN Max(f2, 3) ELSE f2
             f4 == IF sel["tornado"].value = "damaging_reported" /\ majorPop THEN Max(f3, 4) ELSE f3
             f5 == IF hailPop /\ sel["hail"].value = "large" THEN Max(f4, 3) ELSE f4
             f6 == IF hailPop /\ sel["hail"].value = "very_large" THEN Max(f5, 4) ELSE f5
         IN  f6

\* computeFinalLevel with the hail rules not testing the hail value
computeFinalLevel_hailAny(baseId, sel, majorPop, hailPop, m) ==
    IF m = "regional" THEN 1
    ELSE IF sel["wind"].value = "destructive" THEN 4
    ELSE LET f1 == IF sel["rotation"].value = "strong" /\ majorPop THEN Max(baseId, 3) ELSE baseId
             f2 == IF sel["rotation"].value = "intense" /\ majorPop THEN Max(f1, 4) ELSE f1
             f3 == IF sel["tornado"].value = "reported" /\ majorPop THEN Max(f2, 3) ELSE f2
             f4 == IF sel["tornado"].value = "damaging_reported" /\ majorPop THEN Max(f3, 4) ELSE f3
             f5 == IF hailPop THEN Max(f4, 3) ELSE f4
         IN  f5

\* computeFinalLevel with the damaging-tornado rule left out
computeFinalLevel_noDamagingRule(baseId, sel, majorPop, hailPop, m) ==
    IF m = "regional" THEN 1
    ELSE IF sel["wind"].value = "destructive" THEN 4
    ELSE LET f1 == IF sel["rotation"].value = "strong" /\ majorPop THEN Max(baseId, 3) ELSE baseId
             f2 == IF sel["rotation"].value = "intense" /\ majorPop THEN Max(f1, 4) ELSE f1
             f3 == IF sel["tornado"].value = "reported" /\ majorPop THEN Max(f2, 3) ELSE f2
             f5 == IF hailPop /\ sel["hail"].value = "large" THEN Max(f3, 3) ELSE f3
             f6 == IF hailPop /\ sel["hail"].value = "very_large" THEN Max(f5, 4) ELSE f5
         IN  f6

\* computeFinalLevel with the levels of the two hail rules exchanged
computeFinalLevel_hailSwapped(baseId, sel, majorPop, hailPop, m) ==
    IF m = "regional" THEN 1
    ELSE IF sel["wind"].value = "destructive" THEN 4
    ELSE LET f1 == IF sel["rotation"].value = "strong" /\ majorPop THEN Max(baseId, 3) ELSE baseId
             f2 == IF sel["rotation"].value = "intense" /\ majorPop THEN Max(f1, 4) ELSE f1
             f3 == IF sel["tornado"].value = "reported" /\ majorPop THEN Max(f2, 3) ELSE f2
             f4 == IF sel["tornado"].value = "damaging_reported" /\ majorPop THEN Max(f3, 4) ELSE f3
             f5 == IF hailPop /\ sel["hail"].value = "large" THEN Max(f4, 4) ELSE f4
             f6 == IF hailPop /\ sel["hail"].value = "very_large" THEN Max(f5, 3) ELSE f5
         IN  f6

\* computeFinalLevel with the hail = large rule left out
computeFinalLevel_noHailLargeRule(baseId, sel, majorPop, hailPop, m) ==
    IF m = "regional" THEN 1
    ELSE IF sel["wind"].value = "destructive" THEN 4
    ELSE LET f1 == IF sel["rotation"].value = "strong" /\ majorPop THEN Max(baseId, 3) ELSE baseId
             f2 == IF sel["rotation"].value = "intense" /\ majorPop THEN Max(f1, 4) ELSE f1
             f3 == IF sel["tornado"].value = "reported" /\ majorPop THEN Max(f2, 3) ELSE f2
             f4 == IF sel["tornado"].value = "damaging_reported" /\ majorPop THEN Max(f3, 4) ELSE f3
             f6 == IF hailPop /\ sel["hail"].value = "very_large" THEN Max(f4, 4) ELSE f4
         IN  f6

\* computeFinalLevel with let finalId = 1 instead of let finalId = baseId
computeFinalLevel_fromOne(baseId, sel, majorPop, hailPop, m) ==
    IF m = "regional" THEN 1
    ELSE IF sel["wind"].value = "destructive" THEN 4
    ELSE LET f1 == IF sel["rotation"].value = "strong" /\ majorPop THEN 3 ELSE 1
             f2 == IF sel["rotation"].value = "intense" /\ majorPop THEN Max(f1, 4) ELSE f1
             f3 == IF sel["tornado"].value = "reported" /\ majorPop THEN Max(f2, 3) ELSE f2
             f4 == IF sel["tornado"].value = "damaging_reported" /\ majorPop THEN Max(f3, 4) ELSE f3
             f5 == IF hailPop /\ sel["hail"].value = "large" THEN Max(f4, 3) ELSE f4
             f6 == IF hailPop /\ sel["hail"].value = "very_large" THEN Max(f5, 4) ELSE f5
         IN  f6

computeFinalLevel(baseId, sel, majorPop, hailPop, m) ==
    IF m = "regional" THEN 1
    ELSE IF sel["wind"].value = "destructive" THEN 4
    ELSE LET f1 == IF sel["rotation"].value = "strong" /\ majorPop THEN Max(baseId, 3) ELSE baseId
             f2 == IF sel["rotation"].value = "intense" /\ majorPop THEN Max(f1, 4) ELSE f1
             f3 == IF sel["tornado"].value = "reported" /\ majorPop THEN Max(f2, 3) ELSE f2
             f4 == IF sel["tornado"].value = "damaging_reported" /\ majorPop THEN Max(f3, 4) ELSE f3
             f5 == IF hailPop /\ sel["hail"].value = "large" THEN Max(f4, 3) ELSE f4
             f6 == IF hailPop /\ sel["hail"].value = "very_large" THEN Max(f5, 4) ELSE f5
         IN  f6

\* The memos below read the component's cells.  Each is an operator over a
\* record s of the cells, and the value the component renders is that operator
\* applied to the current cells.

\* const baseOverall = useMemo(...): its id
baseOverallOf(s) == IF s.mode = "storm" THEN resolveOverallLevel(s.selection) ELSE 1

baseOverall == baseOverallOf(cells)

\* const finalLevelId = useMemo(...)
finalLevelIdOf(s) ==
    computeFinalLevel(baseOverallOf(s), s.selection, s.majorPopPath, s.hailMajorPop, s.mode)

finalLevelId == finalLevelIdOf(cells)

\* LEVELS.find((l) => l.id === id): <<entry>>, or <<>> for undefined
findLevel(id) ==
    IF \E i \in 1..Len(LEVELS) : LEVELS[i].id = id
    THEN <<LEVELS[CHOOSE i \in 1..Len(LEVELS) :
                    LEVELS[i].id = id /\ \A j \in 1..(i-1) : LEVELS[j].id # id]>>
    ELSE <<>>

\* const finalLevelMeta = LEVELS.find((l) => l.id === finalLevelId)!
\* (reading .label of an undefined entry throws; so does [1] of <<>>)
finalLevelMetaOf(s) == findLevel(finalLevelIdOf(s))[1]

finalLevelMeta == finalLevelMetaOf(cells)

-----------------------------------------------------------------------------
(* Text formatter *)

\* capWord: s ? s.charAt(0).toUpperCase() + s.slice(1) : s
capWord(s) == IF Len(s) = 0 THEN s ELSE toUpperCase(<<s[1]>>) \o SubSeq(s, 2, Len(s))

\* the small-word set of nytTitleCase
small == { <<"a">>, <<"a","n">>, <<"t","h","e">>, <<"a","n","d">>, <<"b","u","t">>, <<"o","r">>, <<"n","o","r">>, <<"f","o","r">>,
           <<"s","o">>, <<"y","e","t">>, <<"a","s">>, <<"a","t">>, <<"b","y">>, <<"i","n">>, <<"o","f">>, <<"o","n">>,
           <<"p","e","r">>, <<"t","o">>, <<"v","i","a">>, <<"v","s">>, <<"v","s",".">>, <<"w","i","t","h">>, <<"o","v","e","r">>,
           <<"i","n","t","o">>, <<"o","n","t","o">>, <<"f","r","o","m">>, <<"o","f","f">>, <<"u","p">>, <<"d","o","w","n">>, <<"o","u","t">>,
           <<"a","b","o","u","t">>, <<"n","e","a","r">> }

\* titleWord with the small-word test made before the all-capitals test
titleWord_smallFirst(w, i, n) ==
    LET isFirst == i = 1
        isLast == i = n
        lower == toLowerCase(w)
        parts == split(lower, "-")
        part(j) ==
            LET firstLast == (isFirst /\ j = 1) \/ (isLast /\ j = Len(parts))
            IN  IF parts[j] \in small /\ ~firstLast THEN parts[j] ELSE capWord(parts[j])
    IN  IF ~isFirst /\ ~isLast /\ lower \in small THEN lower
        ELSE IF hasLetters(w) /\ w = toUpperCase(w) /\ Len(w) > 1 THEN w
        ELSE join([j \in 1..Len(parts) |-> part(j)], <<"-">>)

\* titleWord with every first and last segment of a hyphenated word exempt
\* from the small-word rule
titleWord_segmentEnds(w, i, n) ==
    LET isFirst == i = 1
        isLast == i = n
        lower == toLowerCase(w)
        parts == split(lower, "-")
        part(j) ==
            LET firstLast == (isFirst /\ j = 1) \/ (isLast /\ j = Len(parts))
                                \/ (Len(parts) > 1 /\ (j = 1 \/ j = Len(parts)))
            IN  IF parts[j] \in small /\ ~firstLast THEN parts[j] ELSE capWord(parts[j])
    IN  IF hasLetters(w) /\ w = toUpperCase(w) /\ Len(w) > 1 THEN w
        ELSE IF ~isFirst /\ ~isLast /\ lower \in small THEN lower
        ELSE join([j \in 1..Len(parts) |-> part(j)], <<"-">>)

\* the callback of nytTitleCase's outer map: word w at index i (from 1) of n
titleWord(w, i, n) ==
    LET isFirst == i = 1
        isLast == i = n
        lower == toLowerCase(w)
        parts == split(lower, "-")
        part(j) ==
            LET firstLast == (isFirst /\ j = 1) \/ (isLast /\ j = Len(parts))
            IN  IF parts[j] \in small /\ ~firstLast THEN parts[j] ELSE capWord(parts[j])
    IN  IF hasLetters(w) /\ w = toUpperCase(w) /\ Len(w) > 1 THEN w
        ELSE IF ~isFirst /\ ~isLast /\ lower \in small THEN lower
        ELSE join([j \in 1..Len(parts) |-> part(j)], <<"-">>)

nytTitleCase(str) ==
    LET arr == splitWhitespace(str)
    IN  join([i \in 1..Len(arr) |-> titleWord(arr[i], i, Len(arr))], <<" ">>)

\* joinForHeadline with a comma before the ampersand for three or more items
joinForHeadline_oxford(items) ==
    IF Len(items) <= 1 THEN (IF Len(items) = 0 THEN <<>> ELSE items[1])
    ELSE IF Len(items) = 2 THEN items[1] \o <<" ","&"," ">> \o items[2]
    ELSE join(SubSeq(items, 1, Len(items) - 1), <<","," ">>) \o <<","," ","&"," ">> \o items[Len(items)]

joinForHeadline(items) ==
    IF Len(items) <= 1 THEN (IF Len(items) = 0 THEN <<>> ELSE items[1])
    ELSE IF Len(items) = 2 THEN items[1] \o <<" ","&"," ">> \o items[2]
    ELSE LET head == join(SubSeq(items, 1, Len(items) - 1), <<","," ">>)
             tail == items[Len(items)]
         IN  head \o <<" ","&"," ">> \o tail

-----------------------------------------------------------------------------
(* Headline builder *)

\* tag with the status ignored
tagOf_alwaysDetected(stat) == <<"D","e","t","e","c","t","e","d">>

\* "Reported" or "Detected"
tagOf(stat) == IF stat = "reported" THEN <<"R","e","p","o","r","t","e","d">> ELSE <<"D","e","t","e","c","t","e","d">>

\* headlinePhrase: <<phrase>>, or <<>> for null
headlinePhrase(key, value, stat) ==
    LET tag == tagOf(stat)
    IN  CASE key = "tornado" ->
               IF value = "reported" THEN << <<"T","o","r","n","a","d","o"," ","R","e","p","o","r","t","e","d">> >>
               ELSE IF value = "damaging_reported" THEN << <<"D","a","m","a","g","i","n","g"," ","T","o","r","n","a","d","o"," ","R","e","p","o","r","t","e","d">> >>
               ELSE <<>>
          [] key = "rotation" ->
               IF value = "weak" THEN << <<"W","e","a","k"," ","R","o","t","a","t","i","o","n"," ","D","e","t","e","c","t","e","d">> >>
               ELSE IF value = "organized" THEN << <<"O","r","g","a","n","i","z","e","d"," ","R","o","t","a","t","i","o","n"," ","D","e","t","e","c","t","e","d">> >>
               ELSE IF value = "strong" THEN << <<"S","t","r","o","n","g"," ","R","o","t","a","t","i","o","n"," ","D","e","t","e","c","t","e","d">> >>
               ELSE IF value = "intense" THEN << <<"I","n","t","e","n","s","e"," ","R","o","t","a","t","i","o","n"," ","D","e","t","e","c","t","e","d">> >>
               ELSE <<>>
          [] key = "funnel" ->
               IF value = "reported" THEN << <<"F","u","n","n","e","l"," ","C","l","o","u","d"," ","R","e","p","o","r","t","e","d">> >>
               ELSE IF value = "landspout_reported" THEN << <<"L","a","n","d","s","p","o","u","t"," ","R","e","p","o","r","t","e","d">> >>
               ELSE <<>>
          [] key = "hail" ->
               IF value = "subsevere" THEN << <<"S","u","b","-","S","e","v","e","r","e"," ","H","a","i","l"," ">> \o tag >>
               ELSE IF value = "marginal" THEN << <<"M","a","r","g","i","n","a","l","l","y"," ","S","e","v","e","r","e"," ","H","a","i","l"," ">> \o tag >>
               ELSE IF value = "severe" THEN << <<"S","e","v","e","r","e"," ","H","a","i","l"," ">> \o tag >>
               ELSE IF value = "large" THEN << <<"L","a","r","g","e"," ","H","a","i","l"," ">> \o tag >>
               ELSE IF value = "very_large" THEN << <<"V","e","r","y"," ","L","a","r","g","e"," ","H","a","i","l"," ">> \o tag >>
               ELSE <<>>
          [] key = "wind" ->
               IF value = "sub_severe" THEN << <<"S","u","b","-","S","e","v","e","r","e"," ","W","i","n","d","s"," ">> \o tag >>
               ELSE IF value = "severe" THEN << <<"S","e","v","e","r","e"," ","W","i","n","d","s"," ">> \o tag >>
               ELSE IF value = "damaging" THEN << <<"D","a","m","a","g","i","n","g"," ","W","i","n","d","s"," ">> \o tag >>
               ELSE IF value = "destructive" THEN << <<"D","e","s","t","r","u","c","t","i","v","e"," ","W","i","n","d","s"," ">> \o tag >>
               ELSE <<>>
          [] key = "flooding" ->
               IF value = "isolated" THEN << <<"I","s","o","l","a","t","e","d"," ","F","l","o","o","d","i","n","g"," ">> \o tag >>
               ELSE IF value = "flooding" THEN << <<"F","l","o","o","d","i","n","g"," ">> \o tag >>
               ELSE IF value = "significant" THEN << <<"S","i","g","n","i","f","i","c","a","n","t"," ","F","l","o","o","d","i","n","g"," ">> \o tag >>
               ELSE <<>>
          [] OTHER -> <<>>

\* HAZARD_PRIORITY.indexOf(key)
priorityIndex(key) == CHOOSE i \in 1..Len(HAZARD_PRIORITY) : HAZARD_PRIORITY[i] = key

\* Array.prototype.sort(cmp): a stable sort; c[i][j] is cmp(seq[i], seq[j]) and
\* seq[i] goes before seq[j] when it is negative
sort(seq, c) ==
    LET n == Len(seq)
        rank == [i \in 1..n |->
                   1 + Cardinality({j \in 1..n : c[j][i] < 0 \/ (c[j][i] = 0 /\ j < i)})]
    IN  [p \in 1..n |-> seq[CHOOSE i \in 1..n : rank[i] = p]]

\* Array.prototype.filter on HAZARD_PRIORITY: the keys that satisfy keep, in order
RECURSIVE filterKeys(_, _)
filterKeys(keys, keep) ==
    IF Len(keys) = 0 THEN <<>>
    ELSE (IF keys[1] \in keep THEN <<keys[1]>> ELSE <<>>) \o filterKeys(Tail(keys), keep)

\* the comparison without b.level - a.level: the fixed priority alone
compareItems_priorityOnly(a, b) == priorityIndex(a.key) - priorityIndex(b.key)

\* (a, b) => b.level - a.level || HAZARD_PRIORITY.indexOf(a.key) - HAZARD_PRIORITY.indexOf(b.key)
compareItems(a, b) ==
    IF b.level - a.level # 0 THEN b.level - a.level
    ELSE priorityIndex(a.key) - priorityIndex(b.key)

\* const items = HAZARD_PRIORITY.map(...).filter(...).sort(...)
headlineItems(sel) ==
    LET kept == filterKeys(HAZARD_PRIORITY, {k \in HazardKeys : sel[k].level # 0})
        mapped == [i \in 1..Len(kept) |->
                     [key |-> kept[i], level |-> sel[kept[i]].level, value |-> sel[kept[i]].value]]
    IN  sort(mapped, [i \in 1..Len(mapped) |-> [j \in 1..Len(mapped) |->
                         compareItems(mapped[i], mapped[j])]])

\* the status a headline phrase is built with
headlineStat(key, stat) ==
    IF key = "rotation" \/ key = "funnel" THEN "detected"
    ELSE IF key = "tornado" THEN "reported"
    ELSE stat[key]

\* .filter(Boolean) over a list of <<phrase>> / <<>>: null and "" are dropped
RECURSIVE filterBoolean(_)
filterBoolean(opts) ==
    IF Len(opts) = 0 THEN <<>>
    ELSE (IF Len(opts[1]) = 0 \/ Len(opts[1][1]) = 0 THEN <<>> ELSE opts[1])
         \o filterBoolean(Tail(opts))

\* const phrases = items.map(...).filter(...)
headlinePhrases(sel, stat) ==
    LET items == headlineItems(sel)
    IN  filterBoolean([i \in 1..Len(items) |->
            headlinePhrase(items[i].key, items[i].value, headlineStat(items[i].key, stat))])

\* hazardTextRaw without the fallback text
stormTextRaw_noFallback(sel, stat) == joinForHeadline(headlinePhrases(sel, stat))

\* const hazardTextRaw of buildHeadlineStorm
stormTextRaw(sel, stat) ==
    LET phrases == headlinePhrases(sel, stat)
    IN  IF Len(phrases) # 0 THEN joinForHeadline(phrases) ELSE <<"H","a","z","a","r","d","o","u","s"," ","W","e","a","t","h","e","r"," ","D","e","t","e","c","t","e","d">>

\* the case transform with needsAllCaps always true
caseTransform_alwaysCaps(raw, overallId) == toUpperCase(raw)

\* needsAllCaps ? raw.toUpperCase() : nytTitleCase(raw)
caseTransform(raw, overallId) ==
    IF overallId >= 3 THEN toUpperCase(raw) ELSE nytTitleCase(raw)

buildHeadlineStorm(sel, stat, overallId, overallLabel) ==
    LET hazardTextRaw == stormTextRaw(sel, stat)
        category == toUpperCase(overallLabel)
        hazardText == caseTransform(hazardTextRaw, overallId)
    IN  category \o <<":"," ">> \o hazardText

\* regionalParts with "Tornado Risk" pushed whatever the choice is
regionalParts_riskAlways(choice, tornadoRisk) ==
    (IF choice = "funnel" THEN << <<"F","u","n","n","e","l"," ","C","l","o","u","d"," ","P","o","t","e","n","t","i","a","l">> >> ELSE <<>>)
    \o (IF choice = "severe" THEN << <<"S","e","v","e","r","e"," ","T","h","u","n","d","e","r","s","t","o","r","m"," ","P","o","t","e","n","t","i","a","l">> >> ELSE <<>>)
    \o (IF tornadoRisk THEN << <<"T","o","r","n","a","d","o"," ","R","i","s","k">> >> ELSE <<>>)

\* const parts of buildHeadlineRegional
regionalParts(choice, tornadoRisk) ==
    (IF choice = "funnel" THEN << <<"F","u","n","n","e","l"," ","C","l","o","u","d"," ","P","o","t","e","n","t","i","a","l">> >> ELSE <<>>)
    \o (IF choice = "severe" THEN << <<"S","e","v","e","r","e"," ","T","h","u","n","d","e","r","s","t","o","r","m"," ","P","o","t","e","n","t","i","a","l">> >> ELSE <<>>)
    \o (IF choice = "severe" /\ tornadoRisk THEN << <<"T","o","r","n","a","d","o"," ","R","i","s","k">> >> ELSE <<>>)

\* textRaw with the storm builder's fallback text
regionalTextRaw_stormFallback(choice, tornadoRisk) ==
    LET parts == regionalParts(choice, tornadoRisk)
    IN  IF Len(parts) # 0 THEN joinForHeadline(parts) ELSE <<"H","a","z","a","r","d","o","u","s"," ","W","e","a","t","h","e","r"," ","D","e","t","e","c","t","e","d">>

\* const textRaw of buildHeadlineRegional
regionalTextRaw(choice, tornadoRisk) ==
    LET parts == regionalParts(choice, tornadoRisk)
    IN  IF Len(parts) # 0 THEN joinForHeadline(parts) ELSE <<"W","e","a","t","h","e","r"," ","P","o","t","e","n","t","i","a","l">>

buildHeadlineRegional(choice, tornadoRisk, overallId, overallLabel) ==
    LET textRaw == regionalTextRaw(choice, tornadoRisk)
        category == toUpperCase(overallLabel)
        text == caseTransform(textRaw, overallId)
    IN  category \o <<":"," ">> \o text

\* headlineBase built with the base level instead of the final level
headlineBase_baseLevel ==
    IF mode = "storm"
    THEN buildHeadlineStorm(selection, status, baseOverall, finalLevelMeta.label)
    ELSE buildHeadlineRegional(regionalChoice, regionalTornadoRisk, baseOverall,
                               finalLevelMeta.label)

\* const headlineBase = useMemo(...)
headlineBaseOf(s) ==
    IF s.mode = "storm"
    THEN buildHeadlineStorm(s.selection, s.status, finalLevelIdOf(s), finalLevelMetaOf(s).label)
    ELSE buildHeadlineRegional(s.regionalChoice, s.regionalTornadoRisk, finalLevelIdOf(s),
                               finalLevelMetaOf(s).label)

headlineBase == headlineBaseOf(cells)

\* the hashtag prefix `#${code}Storm #${code}wx `
hashtagPrefix(code) == <<"#">> \o code \o <<"S","t","o","r","m"," ","#">> \o code \o <<"w","x"," ">>

\* headline with the hashtags prepended before the case transform
headline_tagsBeforeCase ==
    IF ~addHashtags THEN headlineBase
    ELSE caseTransform(hashtagPrefix(toUpperCase(province)) \o headlineBase, finalLevelId)

\* const headline = useMemo(...)
headlineOf(s) ==
    IF ~s.addHashtags THEN headlineBaseOf(s)
    ELSE hashtagPrefix(toUpperCase(s.province)) \o headlineBaseOf(s)

headline == headlineOf(cells)

-----------------------------------------------------------------------------
(* Description builder *)
(* The description memo reads the component's cells; its parts are          *)
(* operators over a record s of the cells, so that they can be evaluated    *)
(* for the cells before and after a step.                                   *)

\* JavaScript truthiness of a string
truthy(s) == Len(s) # 0

\* PROVINCE_FULL[code]
PROVINCE_FULL(code) ==
    CASE code = <<"O","N">> -> <<"O","n","t","a","r","i","o">>
      [] code = <<"Q","C">> -> <<"Q","u","e","b","e","c">>
      [] code = <<"M","B">> -> <<"M","a","n","i","t","o","b","a">>
      [] code = <<"S","K">> -> <<"S","a","s","k","a","t","c","h","e","w","a","n">>
      [] code = <<"A","B">> -> <<"A","l","b","e","r","t","a">>
      [] code = <<"B","C">> -> <<"B","r","i","t","i","s","h"," ","C","o","l","u","m","b","i","a">>
      [] code = <<"N","B">> -> <<"N","e","w"," ","B","r","u","n","s","w","i","c","k">>
      [] code = <<"N","S">> -> <<"N","o","v","a"," ","S","c","o","t","i","a">>
      [] code = <<"P","E">> -> <<"P","r","i","n","c","e"," ","E","d","w","a","r","d"," ","I","s","l","a","n","d">>
      [] code = <<"N","L">> -> <<"N","e","w","f","o","u","n","d","l","a","n","d"," ","a","n","d"," ","L","a","b","r","a","d","o","r">>
      [] code = <<"Y","T">> -> <<"Y","u","k","o","n">>
      [] code = <<"N","T">> -> <<"N","o","r","t","h","w","e","s","t"," ","T","e","r","r","i","t","o","r","i","e","s">>
      [] code = <<"N","U">> -> <<"N","u","n","a","v","u","t">>
      [] OTHER -> <<>>

\* s.replace(/\s+/g, "")
removeWhitespace(s) == SelectSeq(s, LAMBDA c : ~isWhitespace(c))

\* getStormReportGroupInfo: name and url (<<>> for null, <<u>> for a url u)
getStormReportGroupInfo(code) ==
    LET full == IF truthy(PROVINCE_FULL(code)) THEN PROVINCE_FULL(code) ELSE code
    IN  IF code = <<"O","N">>
        THEN [name |-> <<"O","n","t","a","r","i","o"," ","S","t","o","r","m"," ","R","e","p","o","r","t","s">>,
              url |-> << <<"h","t","t","p","s",":","/","/","w","w","w",".","f","a","c","e","b","o","o","k",".","c","o","m","/","g","r","o","u","p","s","/","o","n","t","a","r","i","o","s","t","o","r","m","r","e","p","o","r","t","s">> >>]
        ELSE IF code = <<"A","B">> \/ code = <<"S","K">> \/ code = <<"M","B">>
        THEN LET slug == removeWhitespace(toLowerCase(full))
             IN  [name |-> full \o <<" ","S","t","o","r","m"," ","R","e","p","o","r","t","s">>,
                  url |-> << <<"h","t","t","p","s",":","/","/","w","w","w",".","f","a","c","e","b","o","o","k",".","c","o","m","/","g","r","o","u","p","s","/">> \o slug \o <<"s","t","o","r","m">> >>]
        ELSE IF code = <<"N","B">> \/ code = <<"N","S">> \/ code = <<"P","E">>
        THEN [name |-> <<"A","t","l","a","n","t","i","c"," ","C","a","n","a","d","a"," ","S","t","o","r","m"," ","R","e","p","o","r","t","s">>,
              url |-> << <<"h","t","t","p","s",":","/","/","w","w","w",".","f","a","c","e","b","o","o","k",".","c","o","m","/","g","r","o","u","p","s","/","a","t","l","a","n","t","i","c","s","t","o","r","m","r","e","p","o","r","t","s">> >>]
        ELSE [name |-> full \o <<" ","S","t","o","r","m"," ","R","e","p","o","r","t","s">>, url |-> <<>>]

\* const reportLine of description
reportLine(s) ==
    LET groupInfo == getStormReportGroupInfo(s.province)
    IN  <<"H","a","v","e"," ","a"," ","r","e","p","o","r","t","?"," ","I","f"," ","i","t"," ","i","s"," ","s","a","f","e",","," ","p","l","e","a","s","e"," ","p","o","s","t"," ","t","o"," ">> \o groupInfo.name
        \o (IF Len(groupInfo.url) # 0 /\ truthy(groupInfo.url[1])
            THEN <<" ","(">> \o groupInfo.url[1] \o <<")">> ELSE <<>>)
        \o <<"."," ","I","n","c","l","u","d","e"," ","y","o","u","r"," ","e","x","a","c","t"," ","l","o","c","a","t","i","o","n"," ","a","n","d"," ","t","h","e"," ","l","o","c","a","l"," ","d","a","t","e","/","t","i","m","e"," ","o","f"," ","y","o","u","r"," ","r","e","p","o","r","t",".">>

\* the characters the regular expression \w matches
isWordChar(c) ==
    c \in LowerSet \cup UpperSet \cup {"0", "1", "2", "3", "4", "5", "6", "7", "8", "9", "_"}

\* toTitleCase: s.replace(/\b\w/g, (m) => m.toUpperCase())
toTitleCase(s) ==
    [i \in 1..Len(s) |->
        IF isWordChar(s[i]) /\ (i = 1 \/ ~isWordChar(s[i-1])) /\ s[i] \in LowerSet
        THEN UpperMap[s[i]] ELSE s[i]]

\* Array.prototype.filter(Boolean) over a list of strings
filterTruthy(strs) == SelectSeq(strs, truthy)

\* the list "a, b & c" of the description: one item as it is, otherwise
\* slice(0,-1).join(", ") + " & " + last
joinWithAmpersand(list) ==
    IF Len(list) = 1 THEN list[1]
    ELSE join(SubSeq(list, 1, Len(list) - 1), <<","," ">>) \o <<" ","&"," ">> \o list[Len(list)]

\* const areaText of the regional branch
areaText(s) ==
    IF truthy(s.regions) THEN <<"R","e","g","i","o","n","s"," ","i","m","p","a","c","t","e","d",":"," ">> \o s.regions \o <<".">>
    ELSE <<"R","e","g","i","o","n","s"," ","i","m","p","a","c","t","e","d",":"," ","m","u","l","t","i","p","l","e"," ","c","o","m","m","u","n","i","t","i","e","s"," ","w","i","t","h","i","n"," ","t","h","e"," ","a","r","e","a",".">>

\* const tf of the regional branch
tf(s) == IF truthy(s.timeWindow) THEN <<" ","T","i","m","e","f","r","a","m","e",":"," ">> \o s.timeWindow \o <<".">> ELSE <<>>

\* the paragraphs of the regional branch for regionalChoice === "funnel"
regionalFunnelParagraphs(s) ==
    LET p1 == <<"T","h","i","s"," ","i","s"," ","a"," ","r","e","g","i","o","n","a","l"," ","n","o","t","i","f","i","c","a","t","i","o","n"," ","c","a","t","e","g","o","r","i","z","e","d"," ","a","s"," ">> \o finalLevelMetaOf(s).label
              \o <<":"," ","c","o","n","d","i","t","i","o","n","s"," ","a","r","e"," ","f","a","v","o","u","r","a","b","l","e"," ","f","o","r"," ","f","u","n","n","e","l"," ","c","l","o","u","d","s"," ","t","o"," ","d","e","v","e","l","o","p"," ","i","n"," ","p","a","r","t","s"," ","o","f"," ","t","h","e"," ","a","r","e","a","."," ">>
              \o areaText(s) \o tf(s)
        p2 == <<"W","h","a","t"," ","i","t"," ","m","e","a","n","s",":"," ","F","u","n","n","e","l"," ","c","l","o","u","d","s"," ","a","r","e"," ","n","a","r","r","o","w",","," ","r","o","t","a","t","i","n","g"," ","c","o","l","u","m","n","s"," ","t","h","a","t"," ","e","x","t","e","n","d"," ","f","r","o","m"," ","t","h","e"," ","b","a","s","e"," ","o","f"," ","t","o","w","e","r","i","n","g"," ","c","u","m","u","l","u","s"," ","o","r"," ","d","e","v","e","l","o","p","i","n","g"," ","t","h","u","n","d","e","r","s","t","o","r","m","s","."," ","T","h","e","y"," ","r","a","r","e","l","y"," ","p","o","s","e"," ","a"," ","s","i","g","n","i","f","i","c","a","n","t"," ","t","h","r","e","a","t",","," ","b","u","t"," ","t","h","e","y"," ","c","a","n"," ","b","r","i","e","f","l","y"," ","t","o","u","c","h"," ","d","o","w","n"," ","a","n","d"," ","b","e","c","o","m","e"," ","a"," ","w","e","a","k"," ","l","a","n","d","s","p","o","u","t"," ","t","o","r","n","a","d","o",","," ","w","h","i","c","h"," ","i","s"," ","a"," ","n","a","r","r","o","w",","," ","g","r","o","u","n","d","-","b","a","s","e","d"," ","s","p","i","n","-","u","p"," ","n","o","t"," ","c","o","n","n","e","c","t","e","d"," ","t","o"," ","a"," ","r","o","t","a","t","i","n","g"," ","s","u","p","e","r","c","e","l","l",".">>
        p3 == <<"I","f"," ","y","o","u"," ","s","e","e"," ","a"," ","f","u","n","n","e","l"," ","c","l","o","u","d",":"," ","M","o","v","e"," ","i","n","d","o","o","r","s"," ","a","n","d"," ","a","w","a","y"," ","f","r","o","m"," ","w","i","n","d","o","w","s",","," ","n","o","t","e"," ","t","h","e"," ","t","i","m","e"," ","a","n","d"," ","l","o","c","a","t","i","o","n",","," ","a","n","d"," ","b","e"," ","r","e","a","d","y"," ","t","o"," ","s","h","e","l","t","e","r"," ","q","u","i","c","k","l","y"," ","i","f"," ","i","t"," ","a","p","p","r","o","a","c","h","e","s","."," ","C","o","n","s","i","d","e","r"," ","r","e","p","o","r","t","i","n","g"," ","i","t"," ","i","f"," ","s","a","f","e"," ","t","o"," ","d","o"," ","s","o",".">>
        p4 == <<"S","t","a","y"," ","a","w","a","r","e",":"," ","K","e","e","p"," ","a","n"," ","e","y","e"," ","o","n"," ","t","h","e"," ","s","k","y"," ","a","n","d"," ","s","t","a","y"," ","t","u","n","e","d"," ","f","o","r"," ","f","u","t","u","r","e"," ","I","n","s","t","a","n","t"," ","W","e","a","t","h","e","r"," ","c","u","s","t","o","m"," ","n","o","t","i","f","i","c","a","t","i","o","n","s"," ","a","n","d"," ","a","l","e","r","t","s"," ","f","r","o","m"," ","E","n","v","i","r","o","n","m","e","n","t"," ","C","a","n","a","d","a","."," ","B","e"," ","p","r","e","p","a","r","e","d"," ","t","o"," ","a","c","t"," ","q","u","i","c","k","l","y"," ","i","f"," ","s","t","o","r","m","s"," ","i","n","t","e","n","s","i","f","y",".">>
        p5 == <<"R","e","p","o","r","t","s",":"," ">> \o reportLine(s)
    IN  <<p1, p2, p3, p4, p5>>

\* const risks of the regional branch
regionalRisks(s) ==
    (IF s.regionalSevere.wind THEN << <<"d","a","m","a","g","i","n","g"," ","w","i","n","d"," ","g","u","s","t","s">> >> ELSE <<>>)
    \o (IF s.regionalSevere.hail THEN << <<"l","a","r","g","e"," ","h","a","i","l">> >> ELSE <<>>)
    \o (IF s.regionalSevere.heavyRain THEN << <<"t","o","r","r","e","n","t","i","a","l"," ","r","a","i","n"," ","a","n","d"," ","l","o","c","a","l","i","z","e","d"," ","f","l","o","o","d","i","n","g">> >> ELSE <<>>)
    \o (IF s.regionalSevere.lightning THEN << <<"f","r","e","q","u","e","n","t"," ","l","i","g","h","t","n","i","n","g">> >> ELSE <<>>)

\* the paragraphs of the regional branch for regionalChoice === "severe"
regionalSevereParagraphs(s) ==
    LET risks == regionalRisks(s)
        riskLine == IF Len(risks) # 0
                    THEN <<"P","o","s","s","i","b","l","e"," ","h","a","z","a","r","d","s",":"," ">> \o joinWithAmpersand(risks) \o <<".">>
                    ELSE <<>>
        torLine == IF s.regionalTornadoRisk
                   THEN <<"T","o","r","n","a","d","o"," ","r","i","s","k",":"," ">> \o toTitleCase(s.regionalTornadoRiskLevel) \o <<".">>
                   ELSE <<>>
        p1 == <<"T","h","i","s"," ","i","s"," ","a"," ","r","e","g","i","o","n","a","l"," ","n","o","t","i","f","i","c","a","t","i","o","n"," ","c","a","t","e","g","o","r","i","z","e","d"," ","a","s"," ">> \o finalLevelMetaOf(s).label
              \o <<":"," ","c","o","n","d","i","t","i","o","n","s"," ","m","a","y"," ","d","e","v","e","l","o","p"," ","t","o"," ","p","r","o","d","u","c","e"," ","s","e","v","e","r","e"," ","t","h","u","n","d","e","r","s","t","o","r","m","s"," ","i","n"," ","p","a","r","t","s"," ","o","f"," ","t","h","e"," ","a","r","e","a","."," ">>
              \o areaText(s) \o tf(s)
        p2 == join(filterTruthy(<<riskLine, torLine>>), <<" ">>)
        p3 == <<"W","h","a","t"," ","y","o","u"," ","s","h","o","u","l","d"," ","d","o",":"," ","H","a","v","e"," ","a"," ","w","a","y"," ","t","o"," ","r","e","c","e","i","v","e"," ","n","o","t","i","f","i","c","a","t","i","o","n","s"," ","a","n","d"," ","s","t","a","y"," ","t","u","n","e","d"," ","f","o","r"," ","f","u","t","u","r","e"," ","I","n","s","t","a","n","t"," ","W","e","a","t","h","e","r"," ","c","u","s","t","o","m"," ","n","o","t","i","f","i","c","a","t","i","o","n","s"," ","a","n","d"," ","a","l","e","r","t","s"," ","f","r","o","m"," ","E","n","v","i","r","o","n","m","e","n","t"," ","C","a","n","a","d","a","."," ","B","e"," ","r","e","a","d","y"," ","t","o"," ","m","o","v","e"," ","i","n","d","o","o","r","s"," ","q","u","i","c","k","l","y"," ","i","f"," ","s","k","i","e","s"," ","d","a","r","k","e","n"," ","o","r"," ","t","h","u","n","d","e","r"," ","i","s"," ","h","e","a","r","d",".">>
        p4 == <<"R","e","p","o","r","t","s",":"," ">> \o reportLine(s)
    IN  filterTruthy(<<p1, p2, p3, p4>>)

\* the paragraphs of the regional branch without a choice
regionalFallbackParagraphs(s) ==
    LET pFallback == <<"T","h","i","s"," ","i","s"," ","a"," ","r","e","g","i","o","n","a","l"," ","n","o","t","i","f","i","c","a","t","i","o","n"," ","c","a","t","e","g","o","r","i","z","e","d"," ","a","s"," ">> \o finalLevelMetaOf(s).label
                     \o <<"."," ">> \o areaText(s) \o tf(s)
        pR == <<"R","e","p","o","r","t","s",":"," ">> \o reportLine(s)
    IN  <<pFallback, pR>>

\* regionalParagraphs with the storm branch's primary-threat sentence appended
regionalParagraphs_withThreat(s) ==
    (IF s.regionalChoice = "funnel" THEN regionalFunnelParagraphs(s)
     ELSE IF s.regionalChoice = "severe" THEN regionalSevereParagraphs(s)
     ELSE regionalFallbackParagraphs(s))
    \o (IF s.selection["tornado"].level = 0 THEN <<>>
        ELSE << <<"P","r","i","m","a","r","y"," ","t","h","r","e","a","t",":"," ","a"," ","t","o","r","n","a","d","o",".">> >>)

\* the list the regional branch joins
regionalParagraphs(s) ==
    IF s.regionalChoice = "funnel" THEN regionalFunnelParagraphs(s)
    ELSE IF s.regionalChoice = "severe" THEN regionalSevereParagraphs(s)
    ELSE regionalFallbackParagraphs(s)

\* String.prototype.trim
RECURSIVE trim(_)
trim(s) ==
    IF Len(s) = 0 THEN s
    ELSE IF isWhitespace(s[1]) THEN trim(Tail(s))
    ELSE IF isWhitespace(s[Len(s)]) THEN trim(SubSeq(s, 1, Len(s) - 1))
    ELSE s

\* String.prototype.split(/\n|,/)
RECURSIVE splitLines(_)
splitLines(s) ==
    IF \A i \in 1..Len(s) : s[i] \notin {"\n", ","} THEN <<s>>
    ELSE LET i == CHOOSE k \in 1..Len(s) :
                     s[k] \in {"\n", ","} /\ \A m \in 1..(k-1) : s[m] \notin {"\n", ","}
         IN  <<SubSeq(s, 1, i-1)>> \o splitLines(SubSeq(s, i+1, Len(s)))

\* const townsText
townsText(s) ==
    LET parts == splitLines(s.towns)
    IN  join(filterTruthy([i \in 1..Len(parts) |-> trim(parts[i])]), <<","," ">>)

\* const spd
spd(s) == IF truthy(s.speed) THEN <<" ","a","t"," ","a","b","o","u","t"," ">> \o s.speed \o <<" ","k","m","/","h">> ELSE <<>>

\* const timeText
timeText(s) ==
    IF truthy(s.timeWindow) THEN <<" ","E","x","p","e","c","t","e","d"," ","i","m","p","a","c","t","s"," ","o","v","e","r"," ">> \o s.timeWindow \o <<".">> ELSE <<>>

\* orderedHazards without the sort: the selected hazards in priority order
orderedHazards_unsorted(sel) ==
    LET kept == filterKeys(HAZARD_PRIORITY, {k \in HazardKeys : sel[k].level > 0})
    IN  [i \in 1..Len(kept) |-> [key |-> kept[i], opt |-> sel[kept[i]]]]

\* orderedHazards(selection): entries [key, opt]
orderedHazards(sel) ==
    LET kept == filterKeys(HAZARD_PRIORITY, {k \in HazardKeys : sel[k].level > 0})
        mapped == [i \in 1..Len(kept) |-> [key |-> kept[i], opt |-> sel[kept[i]]]]
    IN  sort(mapped, [i \in 1..Len(mapped) |-> [j \in 1..Len(mapped) |->
            IF mapped[j].opt.level - mapped[i].opt.level # 0
            THEN mapped[j].opt.level - mapped[i].opt.level
            ELSE priorityIndex(mapped[i].key) - priorityIndex(mapped[j].key)]])

\* const levelMeaning
levelMeaning(s) ==
    CASE finalLevelIdOf(s) = 1 -> <<"L","o","w"," ","i","m","m","e","d","i","a","t","e"," ","r","i","s","k","."," ","C","o","n","d","i","t","i","o","n","s"," ","c","o","u","l","d"," ","s","t","r","e","n","g","t","h","e","n",".">>
      [] finalLevelIdOf(s) = 2 -> <<"A","c","t","i","o","n"," ","i","s"," ","a","d","v","i","s","e","d"," ","s","o","o","n","."," ","A"," ","s","e","v","e","r","e"," ","s","t","o","r","m"," ","i","s"," ","o","c","c","u","r","r","i","n","g"," ","o","r"," ","l","i","k","e","l","y",".">>
      [] finalLevelIdOf(s) = 3 -> <<"H","i","g","h"," ","i","m","p","a","c","t"," ","t","h","r","e","a","t","."," ","S","h","e","l","t","e","r"," ","n","o","w",".">>
      [] finalLevelIdOf(s) = 4 -> <<"L","i","f","e","-","t","h","r","e","a","t","e","n","i","n","g"," ","s","i","t","u","a","t","i","o","n","."," ","T","a","k","e"," ","i","m","m","e","d","i","a","t","e"," ","s","h","e","l","t","e","r",".">>
      [] OTHER -> <<"u","n","d","e","f","i","n","e","d">>

\* HAIL_MAX_OPTS: value and sized
HAIL_MAX_OPTS == <<
    [value |-> "", sized |-> <<>>],
    [value |-> "0.5cm_pea", sized |-> <<"p","e","a","-","s","i","z","e","d"," ","(","~","0",".","5"," ","c","m",")">>],
    [value |-> "1.5cm_marble", sized |-> <<"m","a","r","b","l","e","-","s","i","z","e","d"," ","(","~","1",".","5"," ","c","m",")">>],
    [value |-> "1.8cm_dime", sized |-> <<"d","i","m","e","-","s","i","z","e","d"," ","(","~","1",".","8"," ","c","m",")">>],
    [value |-> "2.1cm_nickel", sized |-> <<"n","i","c","k","e","l","-","s","i","z","e","d"," ","(","~","2",".","1"," ","c","m",")">>],
    [value |-> "2.4cm_quarter", sized |-> <<"q","u","a","r","t","e","r","-","s","i","z","e","d"," ","(","~","2",".","4"," ","c","m",")">>],
    [value |-> "2.65cm_loonie", sized |-> <<"l","o","o","n","i","e","-","s","i","z","e","d"," ","(","~","2",".","6","5"," ","c","m",")">>],
    [value |-> "2.8cm_toonie", sized |-> <<"t","o","o","n","i","e","-","s","i","z","e","d"," ","(","~","2",".","8"," ","c","m",")">>],
    [value |-> "3.2cm_timbit", sized |-> <<"T","i","m","b","i","t","-","s","i","z","e","d"," ","(","~","3",".","2"," ","c","m",")">>],
    [value |-> "4.0cm_pingpong", sized |-> <<"p","i","n","g","-","p","o","n","g"," ","b","a","l","l","-","s","i","z","e","d"," ","(","~","4",".","0"," ","c","m",")">>],
    [value |-> "4.3cm_golfball", sized |-> <<"g","o","l","f"," ","b","a","l","l","-","s","i","z","e","d"," ","(","~","4",".","3"," ","c","m",")">>],
    [value |-> "6.7cm_tennisball", sized |-> <<"t","e","n","n","i","s"," ","b","a","l","l","-","s","i","z","e","d"," ","(","~","6",".","7"," ","c","m",")">>],
    [value |-> "7.4cm_baseball", sized |-> <<"b","a","s","e","b","a","l","l","-","s","i","z","e","d"," ","(","~","7",".","4"," ","c","m",")">>],
    [value |-> "9.7cm_softball", sized |-> <<"s","o","f","t","b","a","l","l","-","s","i","z","e","d"," ","(","~","9",".","7"," ","c","m",")">>] >>

\* const hailMaxSized = hailMaxEntry?.sized || ""
hailMaxSized(s) ==
    IF \E i \in 1..Len(HAIL_MAX_OPTS) : HAIL_MAX_OPTS[i].value = s.hailMax
    THEN HAIL_MAX_OPTS[CHOOSE i \in 1..Len(HAIL_MAX_OPTS) :
                          /\ HAIL_MAX_OPTS[i].value = s.hailMax
                          /\ \A j \in 1..(i-1) : HAIL_MAX_OPTS[j].value # s.hailMax].sized
    ELSE <<>>

\* ` (${note})` when the note is not empty
noteInParens(note) == IF truthy(note) THEN <<" ","(">> \o note \o <<")">> ELSE <<>>

\* descFor(key, value): <<>> for null, <<phrase>> for a phrase
descFor(s, key, value) ==
    CASE key = "tornado" ->
           IF value = "reported"
           THEN << <<"a"," ","t","o","r","n","a","d","o",","," ","r","e","p","o","r","t","e","d">> \o noteInParens(s.reportNotes["tornado"]) >>
           ELSE IF value = "damaging_reported"
           THEN << <<"a"," ","d","a","m","a","g","i","n","g"," ","t","o","r","n","a","d","o",","," ","r","e","p","o","r","t","e","d">> \o noteInParens(s.reportNotes["tornado"]) >>
           ELSE <<>>
      [] key = "rotation" ->
           IF value = "weak" THEN << <<"w","e","a","k"," ","r","o","t","a","t","i","o","n"," ","d","e","t","e","c","t","e","d",","," ","a","n"," ","i","n","d","i","c","a","t","o","r"," ","t","h","a","t"," ","t","h","e"," ","s","t","o","r","m"," ","m","a","y"," ","s","t","r","e","n","g","t","h","e","n"," ","a","n","d"," ","c","o","u","l","d"," ","e","v","e","n","t","u","a","l","l","y"," ","p","r","o","d","u","c","e"," ","a"," ","t","o","r","n","a","d","o">> >>
           ELSE IF value = "organized" THEN << <<"o","r","g","a","n","i","z","e","d"," ","l","o","w","-","l","e","v","e","l"," ","r","o","t","a","t","i","o","n"," ","d","e","t","e","c","t","e","d",","," ","t","h","e"," ","s","t","o","r","m"," ","h","a","s"," ","i","n","c","r","e","a","s","e","d"," ","p","o","t","e","n","t","i","a","l"," ","t","o"," ","p","r","o","d","u","c","e"," ","a"," ","t","o","r","n","a","d","o">> >>
           ELSE IF value = "strong" THEN << <<"s","t","r","o","n","g",","," ","t","i","g","h","t","e","n","i","n","g"," ","r","o","t","a","t","i","o","n"," ","d","e","t","e","c","t","e","d"," ","w","i","t","h"," ","p","o","t","e","n","t","i","a","l"," ","f","o","r"," ","a"," ","t","o","r","n","a","d","o"," ","t","o"," ","d","e","v","e","l","o","p"," ","a","t"," ","s","h","o","r","t"," ","n","o","t","i","c","e">> >>
           ELSE IF value = "intense" THEN << <<"i","n","t","e","n","s","e"," ","l","o","w","-","l","e","v","e","l"," ","r","o","t","a","t","i","o","n"," ","d","e","t","e","c","t","e","d",","," ","a"," ","t","o","r","n","a","d","o"," ","c","o","u","l","d"," ","d","e","v","e","l","o","p"," ","o","r"," ","b","e"," ","o","n","g","o","i","n","g"," ","v","e","r","y"," ","n","e","a","r"," ","t","h","e"," ","c","i","r","c","u","l","a","t","i","o","n">> >>
           ELSE <<>>
      [] key = "hail" ->
           LET classLabel ==
                   IF value = "subsevere" THEN <<"s","u","b","-","s","e","v","e","r","e"," ","h","a","i","l">>
                   ELSE IF value = "marginal" THEN <<"m","a","r","g","i","n","a","l","l","y"," ","s","e","v","e","r","e"," ","h","a","i","l">>
                   ELSE IF value = "severe" THEN <<"s","e","v","e","r","e"," ","h","a","i","l">>
                   ELSE IF value = "large" THEN <<"l","a","r","g","e"," ","h","a","i","l">>
                   ELSE IF value = "very_large" THEN <<"v","e","r","y"," ","l","a","r","g","e"," ","h","a","i","l">>
                   ELSE <<>>
               sizePart == IF truthy(hailMaxSized(s))
                           THEN <<","," ","u","p"," ","t","o"," ">> \o hailMaxSized(s) \o <<" ","h","a","i","l">> ELSE <<>>
               rep == IF s.status["hail"] = "reported" THEN <<" ","r","e","p","o","r","t","e","d">> ELSE <<" ","d","e","t","e","c","t","e","d">>
               noteH == IF s.status["hail"] = "reported"
                        THEN noteInParens(s.reportNotes["hail"]) ELSE <<>>
           IN  IF ~truthy(classLabel) THEN <<>>
               ELSE << classLabel \o sizePart \o rep \o noteH >>
      [] key = "wind" ->
           LET classText ==
                   IF value = "sub_severe" THEN <<"s","u","b","-","s","e","v","e","r","e"," ","w","i","n","d","s">>
                   ELSE IF value = "severe" THEN <<"s","e","v","e","r","e"," ","w","i","n","d","s">>
                   ELSE IF value = "damaging" THEN <<"d","a","m","a","g","i","n","g"," ","w","i","n","d","s">>
                   ELSE IF value = "destructive" THEN <<"d","e","s","t","r","u","c","t","i","v","e"," ","w","i","n","d","s">>
                   ELSE <<>>
               maxPart == IF truthy(s.windMax)
                          THEN <<","," ","u","p"," ","t","o"," ">> \o s.windMax \o <<" ","k","m","/","h">> ELSE <<>>
               rep == IF s.status["wind"] = "reported" THEN <<" ","r","e","p","o","r","t","e","d">> ELSE <<" ","d","e","t","e","c","t","e","d">>
               noteW == IF s.status["wind"] = "reported"
                        THEN noteInParens(s.reportNotes["wind"]) ELSE <<>>
           IN  IF ~truthy(classText) THEN <<>>
               ELSE << classText \o maxPart \o rep \o noteW >>
      [] key = "flooding" ->
           LET classText ==
                   IF value = "isolated" THEN <<"i","s","o","l","a","t","e","d"," ","f","l","o","o","d","i","n","g">>
                   ELSE IF value = "flooding" THEN <<"f","l","o","o","d","i","n","g"," ","i","n"," ","p","r","o","n","e"," ","a","r","e","a","s">>
                   ELSE IF value = "significant" THEN <<"s","i","g","n","i","f","i","c","a","n","t"," ","f","l","o","o","d","i","n","g">>
                   ELSE <<>>
               maxRain == IF truthy(s.rainMax)
                          THEN <<","," ","w","i","t","h"," ","r","a","i","n","f","a","l","l"," ","t","o","t","a","l","s"," ","u","p"," ","t","o"," ">> \o s.rainMax \o <<" ","m","m"," ","p","o","s","s","i","b","l","e">>
                          ELSE <<>>
               rep == IF s.status["flooding"] = "reported" THEN <<" ","r","e","p","o","r","t","e","d">> ELSE <<" ","d","e","t","e","c","t","e","d">>
               noteF == IF s.status["flooding"] = "reported"
                        THEN noteInParens(s.reportNotes["flooding"]) ELSE <<>>
           IN  IF ~truthy(classText) THEN <<>>
               ELSE << classText \o maxRain \o rep \o noteF >>
      [] key = "funnel" ->
           LET by == IF truthy(s.funnelReporter)
                     THEN <<" ","(","r","e","p","o","r","t","e","d"," ","b","y"," ">> \o s.funnelReporter \o <<")">> ELSE <<>>
               subtypeText ==
                   IF s.funnelSubtype = "supercell"
                   THEN <<"t","y","p","i","c","a","l","l","y"," ","a","s","s","o","c","i","a","t","e","d"," ","w","i","t","h"," ","s","u","p","e","r","c","e","l","l"," ","t","h","u","n","d","e","r","s","t","o","r","m","s"," ","a","n","d"," ","c","a","n"," ","t","o","u","c","h"," ","d","o","w","n"," ","t","o"," ","b","e","c","o","m","e"," ","a"," ","t","o","r","n","a","d","o">>
                   ELSE <<"o","f","t","e","n"," ","a","s","s","o","c","i","a","t","e","d"," ","w","i","t","h"," ","n","o","n","-","s","u","p","e","r","c","e","l","l"," ","c","o","n","v","e","c","t","i","o","n",";"," ","t","h","e","y"," ","r","a","r","e","l","y"," ","p","o","s","e"," ","a"," ","s","i","g","n","i","f","i","c","a","n","t"," ","t","h","r","e","a","t"," ","b","u","t"," ","c","a","n"," ","b","r","i","e","f","l","y"," ","t","o","u","c","h"," ","d","o","w","n"," ","a","s"," ","a"," ","w","e","a","k"," ","l","a","n","d","s","p","o","u","t"," ","t","o","r","n","a","d","o">>
           IN  IF value = "reported"
               THEN << <<"a"," ","f","u","n","n","e","l"," ","c","l","o","u","d"," ","h","a","s"," ","b","e","e","n"," ","r","e","p","o","r","t","e","d">> \o by \o <<";"," ">> \o subtypeText >>
               ELSE IF value = "landspout_reported"
               THEN << <<"a"," ","l","a","n","d","s","p","o","u","t"," ","t","o","r","n","a","d","o"," ","h","a","s"," ","b","e","e","n"," ","r","e","p","o","r","t","e","d">> \o by
                       \o <<" ","(","a"," ","g","e","n","e","r","a","l","l","y"," ","w","e","a","k","e","r",","," ","n","a","r","r","o","w"," ","t","o","r","n","a","d","o"," ","n","o","t"," ","t","i","e","d"," ","t","o"," ","a"," ","r","o","t","a","t","i","n","g"," ","s","u","p","e","r","c","e","l","l",")">> >>
               ELSE <<>>
      [] OTHER -> <<>>

\* p1 naming the label of the base level instead of the final level
stormP1_baseLabel(s) ==
    <<"T","h","i","s"," ","n","o","t","i","f","i","c","a","t","i","o","n"," ","i","s"," ","c","a","t","e","g","o","r","i","z","e","d"," ","a","s"," ">> \o findLevel(baseOverallOf(s))[1].label
    \o <<":"," ">> \o levelMeaning(s)
    \o (IF truthy(s.location)
        THEN <<" ","A"," ","s","t","o","r","m"," ","i","s"," ","n","e","a","r"," ">> \o s.location \o <<","," ","m","o","v","i","n","g"," ">> \o s.direction \o spd(s) \o <<".">>
        ELSE <<" ","A"," ","s","t","o","r","m"," ","i","s"," ","i","n"," ","y","o","u","r"," ","a","r","e","a",","," ","m","o","v","i","n","g"," ">> \o s.direction \o spd(s) \o <<".">>)
    \o (IF truthy(townsText(s)) THEN <<" ","A","r","e","a","s"," ","i","n"," ","t","h","e"," ","p","a","t","h"," ","i","n","c","l","u","d","e"," ">> \o townsText(s) \o <<".">>
        ELSE <<>>)
    \o timeText(s)

\* const p1 of the storm branch
stormP1(s) ==
    <<"T","h","i","s"," ","n","o","t","i","f","i","c","a","t","i","o","n"," ","i","s"," ","c","a","t","e","g","o","r","i","z","e","d"," ","a","s"," ">> \o finalLevelMetaOf(s).label \o <<":"," ">> \o levelMeaning(s)
    \o (IF truthy(s.location)
        THEN <<" ","A"," ","s","t","o","r","m"," ","i","s"," ","n","e","a","r"," ">> \o s.location \o <<","," ","m","o","v","i","n","g"," ">> \o s.direction \o spd(s) \o <<".">>
        ELSE <<" ","A"," ","s","t","o","r","m"," ","i","s"," ","i","n"," ","y","o","u","r"," ","a","r","e","a",","," ","m","o","v","i","n","g"," ">> \o s.direction \o spd(s) \o <<".">>)
    \o (IF truthy(townsText(s)) THEN <<" ","A","r","e","a","s"," ","i","n"," ","t","h","e"," ","p","a","t","h"," ","i","n","c","l","u","d","e"," ">> \o townsText(s) \o <<".">>
        ELSE <<>>)
    \o timeText(s)

\* const primaryPhrase: <<>> for null
primaryPhrase(s) ==
    LET ordered == orderedHazards(s.selection)
    IN  IF Len(ordered) # 0 THEN descFor(s, ordered[1].key, ordered[1].opt.value) ELSE <<>>

\* const p2 of the storm branch
stormP2(s) ==
    LET phrase == primaryPhrase(s)
    IN  IF Len(phrase) # 0 /\ truthy(phrase[1])
        THEN <<"P","r","i","m","a","r","y"," ","t","h","r","e","a","t",":"," ">> \o phrase[1] \o <<".">>
        ELSE <<>>

\* const extrasPhrases
extrasPhrases(s) ==
    LET ordered == orderedHazards(s.selection)
        extras == SubSeq(ordered, 2, Len(ordered))
    IN  filterBoolean([i \in 1..Len(extras) |-> descFor(s, extras[i].key, extras[i].opt.value)])

\* let p3 of the storm branch
stormP3(s) ==
    LET phrases == extrasPhrases(s)
    IN  IF Len(phrases) = 1
        THEN <<"A","d","d","i","t","i","o","n","a","l"," ","t","h","r","e","a","t",":"," ">> \o phrases[1] \o <<".">>
        ELSE IF Len(phrases) > 1
        THEN <<"A","d","d","i","t","i","o","n","a","l"," ","t","h","r","e","a","t","s",":"," ">>
             \o join(SubSeq(phrases, 1, Len(phrases) - 1), <<","," ">>)
             \o <<" ","&"," ">> \o phrases[Len(phrases)] \o <<".">>
        ELSE <<>>

\* primaryKey taken from the last entry of ordered
primaryKey_last(s) ==
    LET ordered == orderedHazards(s.selection)
    IN  IF Len(ordered) # 0 THEN ordered[Len(ordered)].key ELSE "undefined"

\* const primaryKey: "undefined" when no hazard is selected
primaryKey(s) ==
    LET ordered == orderedHazards(s.selection)
    IN  IF Len(ordered) # 0 THEN ordered[1].key ELSE "undefined"

\* the sentences pushed to safetyLines before the closing sentence
safetyBlock(s) ==
    LET rotationVal == s.selection["rotation"].value
        key == primaryKey(s)
    IN  IF key = "rotation" THEN
            (IF rotationVal = "weak" THEN
                << <<"S","t","a","y"," ","c","l","o","s","e"," ","t","o"," ","s","t","u","r","d","y"," ","s","h","e","l","t","e","r"," ","a","n","d"," ","b","e"," ","r","e","a","d","y"," ","t","o"," ","m","o","v","e"," ","i","n","d","o","o","r","s"," ","q","u","i","c","k","l","y"," ","i","f"," ","t","h","e"," ","s","t","o","r","m"," ","a","p","p","r","o","a","c","h","e","s",".">>,
                   <<"H","a","v","e"," ","a"," ","p","l","a","n"," ","t","o"," ","r","e","a","c","h"," ","a","n"," ","i","n","t","e","r","i","o","r"," ","r","o","o","m"," ","a","w","a","y"," ","f","r","o","m"," ","w","i","n","d","o","w","s"," ","o","n"," ","s","h","o","r","t"," ","n","o","t","i","c","e",".">> >>
             ELSE IF rotationVal = "organized" THEN
                << <<"B","e"," ","p","r","e","p","a","r","e","d"," ","t","o"," ","t","a","k","e"," ","s","h","e","l","t","e","r"," ","q","u","i","c","k","l","y"," ","i","n"," ","a","n"," ","i","n","t","e","r","i","o","r"," ","r","o","o","m"," ","a","w","a","y"," ","f","r","o","m"," ","w","i","n","d","o","w","s",".">>,
                   <<"D","e","l","a","y"," ","o","r"," ","r","e","r","o","u","t","e"," ","t","r","a","v","e","l"," ","n","e","a","r"," ","t","h","e"," ","s","t","o","r","m"," ","u","n","t","i","l"," ","i","t"," ","p","a","s","s","e","s",".">> >>
             ELSE IF rotationVal = "strong" THEN
                (IF s.majorPopPath
                 THEN << <<"T","a","k","e"," ","s","h","e","l","t","e","r"," ","n","o","w"," ","o","n"," ","t","h","e"," ","l","o","w","e","s","t"," ","l","e","v","e","l"," ","o","r"," ","a","n"," ","i","n","t","e","r","i","o","r"," ","r","o","o","m"," ","a","w","a","y"," ","f","r","o","m"," ","w","i","n","d","o","w","s",".">>,
                         <<"P","r","o","t","e","c","t"," ","y","o","u","r"," ","h","e","a","d"," ","a","n","d"," ","n","e","c","k",";"," ","a","v","o","i","d"," ","l","a","r","g","e"," ","o","p","e","n"," ","r","o","o","m","s",".">> >>
                 ELSE << <<"A","c","t"," ","n","o","w",":"," ","m","o","v","e"," ","t","o"," ","a","n"," ","i","n","t","e","r","i","o","r"," ","r","o","o","m"," ","a","w","a","y"," ","f","r","o","m"," ","w","i","n","d","o","w","s",".">>,
                         <<"A","v","o","i","d"," ","w","i","n","d","o","w","s"," ","a","n","d"," ","l","a","r","g","e"," ","o","p","e","n"," ","r","o","o","m","s",","," ","a","n","d"," ","b","e"," ","r","e","a","d","y"," ","t","o"," ","m","o","v","e"," ","t","o"," ","t","h","e"," ","l","o","w","e","s","t"," ","l","e","v","e","l"," ","i","f"," ","t","h","e"," ","s","t","o","r","m"," ","i","n","t","e","n","s","i","f","i","e","s",".">> >>)
             ELSE IF rotationVal = "intense" THEN
                << <<"T","a","k","e"," ","s","h","e","l","t","e","r"," ","n","o","w"," ","o","n"," ","t","h","e"," ","l","o","w","e","s","t"," ","l","e","v","e","l"," ","i","n"," ","a"," ","s","t","u","r","d","y"," ","b","u","i","l","d","i","n","g",".">>,
                   <<"P","u","t"," ","a","s"," ","m","a","n","y"," ","w","a","l","l","s"," ","b","e","t","w","e","e","n"," ","y","o","u"," ","a","n","d"," ","t","h","e"," ","o","u","t","s","i","d","e"," ","a","s"," ","p","o","s","s","i","b","l","e",";"," ","p","r","o","t","e","c","t"," ","y","o","u","r"," ","h","e","a","d"," ","a","n","d"," ","n","e","c","k",".">> >>
             ELSE <<>>)
        ELSE IF key = "tornado" THEN
            << <<"G","o"," ","t","o"," ","t","h","e"," ","l","o","w","e","s","t"," ","l","e","v","e","l"," ","o","r"," ","a","n"," ","i","n","t","e","r","i","o","r"," ","r","o","o","m"," ","a","w","a","y"," ","f","r","o","m"," ","w","i","n","d","o","w","s",".">>,
               <<"P","r","o","t","e","c","t"," ","y","o","u","r"," ","h","e","a","d"," ","a","n","d"," ","n","e","c","k",";"," ","a"," ","h","e","l","m","e","t"," ","o","r"," ","c","u","s","h","i","o","n","s"," ","c","a","n"," ","h","e","l","p",".">>,
               <<"I","f"," ","o","u","t","d","o","o","r","s"," ","o","r"," ","i","n"," ","a"," ","v","e","h","i","c","l","e",","," ","s","e","e","k"," ","a"," ","s","t","u","r","d","y"," ","b","u","i","l","d","i","n","g"," ","i","m","m","e","d","i","a","t","e","l","y",".">> >>
        ELSE IF key = "funnel" /\ (s.selection["funnel"].value = "reported"
                                          \/ s.selection["funnel"].value = "landspout_reported") THEN
            << <<"B","e"," ","r","e","a","d","y"," ","t","o"," ","s","h","e","l","t","e","r"," ","q","u","i","c","k","l","y"," ","i","f"," ","t","h","e"," ","f","u","n","n","e","l"," ","a","p","p","r","o","a","c","h","e","s",".">>,
               <<"M","o","v","e"," ","i","n","d","o","o","r","s"," ","a","n","d"," ","a","v","o","i","d"," ","w","i","n","d","o","w","s"," ","u","n","t","i","l"," ","i","t"," ","d","i","s","s","i","p","a","t","e","s"," ","o","r"," ","p","a","s","s","e","s",".">> >>
        ELSE IF key = "hail" THEN
            << <<"M","o","v","e"," ","i","n","d","o","o","r","s"," ","a","n","d"," ","s","t","a","y"," ","a","w","a","y"," ","f","r","o","m"," ","w","i","n","d","o","w","s"," ","a","n","d"," ","s","k","y","l","i","g","h","t","s",".">>,
               <<"I","f"," ","d","r","i","v","i","n","g",","," ","s","a","f","e","l","y"," ","p","u","l","l"," ","o","v","e","r"," ","u","n","d","e","r"," ","a"," ","s","t","u","r","d","y"," ","s","t","r","u","c","t","u","r","e"," ","i","f"," ","p","o","s","s","i","b","l","e",".">>,
               <<"P","r","o","t","e","c","t"," ","v","e","h","i","c","l","e","s"," ","w","h","e","r","e"," ","y","o","u"," ","c","a","n",";"," ","a","v","o","i","d"," ","p","a","r","k","i","n","g"," ","u","n","d","e","r"," ","t","r","e","e","s",".">> >>
        ELSE IF key = "wind" THEN
            << <<"M","o","v","e"," ","t","o"," ","a","n"," ","i","n","t","e","r","i","o","r"," ","r","o","o","m"," ","a","w","a","y"," ","f","r","o","m"," ","w","i","n","d","o","w","s",".">>,
               <<"S","e","c","u","r","e"," ","o","r"," ","b","r","i","n","g"," ","i","n","s","i","d","e"," ","l","o","o","s","e"," ","o","u","t","d","o","o","r"," ","i","t","e","m","s",".">>,
               <<"A","v","o","i","d"," ","t","r","a","v","e","l"," ","d","u","r","i","n","g"," ","t","h","e"," ","p","e","a","k"," ","o","f"," ","t","h","e"," ","s","t","o","r","m"," ","i","f"," ","p","o","s","s","i","b","l","e",".">> >>
        ELSE IF key = "flooding" THEN
            << <<"N","e","v","e","r"," ","d","r","i","v","e"," ","t","h","r","o","u","g","h"," ","f","l","o","o","d","e","d"," ","r","o","a","d","s",";"," ","t","u","r","n"," ","a","r","o","u","n","d"," ","i","n","s","t","e","a","d",".">>,
               <<"A","v","o","i","d"," ","l","o","w","-","l","y","i","n","g"," ","a","r","e","a","s",","," ","u","n","d","e","r","p","a","s","s","e","s"," ","a","n","d"," ","f","a","s","t","-","m","o","v","i","n","g"," ","w","a","t","e","r",".">>,
               <<"M","o","v","e"," ","v","a","l","u","a","b","l","e","s"," ","o","f","f"," ","t","h","e"," ","f","l","o","o","r"," ","i","n"," ","b","a","s","e","m","e","n","t","s"," ","i","f"," ","s","a","f","e"," ","t","o"," ","d","o"," ","s","o",".">> >>
        ELSE << <<"S","t","a","y"," ","a","w","a","r","e"," ","a","n","d"," ","b","e"," ","r","e","a","d","y"," ","t","o"," ","a","c","t"," ","q","u","i","c","k","l","y"," ","i","f"," ","c","o","n","d","i","t","i","o","n","s"," ","w","o","r","s","e","n",".">> >>

\* const safetyLines
safetyLines(s) ==
    Append(safetyBlock(s), <<"S","t","a","y"," ","t","u","n","e","d"," ","f","o","r"," ","f","u","t","u","r","e"," ","I","n","s","t","a","n","t"," ","W","e","a","t","h","e","r"," ","c","u","s","t","o","m"," ","n","o","t","i","f","i","c","a","t","i","o","n","s"," ","a","n","d"," ","a","l","e","r","t","s"," ","f","r","o","m"," ","E","n","v","i","r","o","n","m","e","n","t"," ","C","a","n","a","d","a",".">>)

\* const p4 of the storm branch
stormP4(s) == <<"W","h","a","t"," ","y","o","u"," ","s","h","o","u","l","d"," ","d","o",":"," ">> \o join(safetyLines(s), <<" ">>)

\* const p5 of the storm branch
stormP5(s) == <<"R","e","p","o","r","t","s",":"," ">> \o reportLine(s)

\* the storm branch's list without .filter(Boolean)
stormParagraphs_unfiltered(s) == <<stormP1(s), stormP2(s), stormP3(s), stormP4(s), stormP5(s)>>

\* [p1, p2, p3, p4, p5].filter(Boolean)
stormParagraphs(s) == filterTruthy(<<stormP1(s), stormP2(s), stormP3(s), stormP4(s), stormP5(s)>>)

\* the list of paragraphs the active branch joins
descriptionParagraphsOf(s) ==
    IF s.mode = "regional" THEN regionalParagraphs(s) ELSE stormParagraphs(s)

\* the value of the description memo for the cells s
descriptionOf(s) == join(descriptionParagraphsOf(s), <<"\n", "\n">>)

\* the paragraphs of the rendered description
descriptionParagraphs == descriptionParagraphsOf(cells)

\* const description = useMemo(...)
description == descriptionOf(cells)

-----------------------------------------------------------------------------
(* Polygon tools *)

Digits == <<"0","1","2","3","4","5","6","7","8","9">>
DigitSet == {Digits[i] : i \in 1..Len(Digits)}

\* decodeURIComponent, for the escapes that occur in polygon links (%20 and %2C)
decodeURIComponent(s) ==
    LET esc == {i \in 1..(Len(s) - 2) : SubSeq(s, i, i + 2) \in { <<"%","2","0">>, <<"%","2","C">> }}
        chars == [i \in 1..Len(s) |->
                    IF i \in esc THEN (IF SubSeq(s, i, i + 2) = <<"%","2","0">> THEN " " ELSE ",")
                    ELSE IF (i - 1) \in esc \/ (i - 2) \in esc THEN ""
                    ELSE s[i]]
    IN  SelectSeq(chars, LAMBDA c : c # "")

\* s.split('/custom/').pop() || s
afterCustom(s) ==
    LET sep == <<"/","c","u","s","t","o","m","/">>
        at == {i \in 1..(Len(s) - Len(sep) + 1) : SubSeq(s, i, i + Len(sep) - 1) = sep}
        last == CHOOSE i \in at : \A j \in at : j <= i
        popped == IF at = {} THEN s ELSE SubSeq(s, last + Len(sep), Len(s))
    IN  IF truthy(popped) THEN popped ELSE s

\* a text of the form -?\d+(?:\.\d+)?
isNumberText(w) ==
    LET u == IF Len(w) > 0 /\ w[1] = "-" THEN Tail(w) ELSE w
        dots == {i \in 1..Len(u) : u[i] = "."}
    IN  /\ Len(u) > 0
        /\ \A i \in 1..Len(u) : u[i] \in DigitSet \cup {"."}
        /\ Cardinality(dots) <= 1
        /\ \A i \in dots : i > 1 /\ i < Len(u)

\* the pair a token gives: <<>> when it is skipped, <<<<lat, lon>>>> when it is
\* pushed.  The numbers are kept as their texts.  (A token of the modelled
\* links is a "number number" pair or holds no such pair.)
pairOfToken(tok) ==
    LET pair == splitWhitespace(trim(tok))
    IN  IF Len(pair) # 2 THEN <<>>
        ELSE IF isNumberText(pair[1]) /\ isNumberText(pair[2]) THEN << <<pair[1], pair[2]>> >>
        ELSE <<>>

RECURSIVE pairsOfTokens(_)
pairsOfTokens(tokens) ==
    IF Len(tokens) = 0 THEN <<>>
    ELSE pairOfToken(tokens[1]) \o pairsOfTokens(Tail(tokens))

\* the list out of parseCoordsFromUrl before the closing vertex is removed
coordPairs(raw) ==
    IF ~truthy(raw) THEN <<>>
    ELSE LET s == decodeURIComponent(decodeURIComponent(trim(raw)))
             parts == split(afterCustom(s), ",")
             tokens == filterTruthy([i \in 1..Len(parts) |-> trim(parts[i])])
         IN  pairsOfTokens(tokens)

\* parseCoordsFromUrl: a trailing copy of the first vertex is removed
parseCoordsFromUrl(raw) ==
    LET out == coordPairs(raw)
    IN  IF Len(out) >= 2 /\ out[1] = out[Len(out)] THEN SubSeq(out, 1, Len(out) - 1) ELSE out

\* disabled={!polyCoords} of the "Fill towns from polygon" button
fillTownsEnabled == Len(polyCoords) # 0

-----------------------------------------------------------------------------
(* Component state and event handlers *)

\* longest argument list of a direct call of joinForHeadline
MaxItems == 4

\* the phrases the argument lists are made of
JoinPhrases == { <<"T","o","r","n","a","d","o"," ","R","e","p","o","r","t","e","d">>, <<"L","a","r","g","e"," ","H","a","i","l"," ","D","e","t","e","c","t","e","d">>, <<"S","e","v","e","r","e"," ","W","i","n","d","s"," ","R","e","p","o","r","t","e","d">> }

\* an argument of nytTitleCase is extended while it is shorter than this
MaxTitleLen == 7

\* the largest number of hazards selected at once under direct status calls
MaxSelected == 2

\* the words and separators the arguments of nytTitleCase are made of
TitleWords == { <<"O","P","P">>, <<"O","F">>, <<"o","f">>, <<"T","O","-","D","O">>, <<"a">>, <<"U","p">>, <<"x","-","i","n">>,
                <<"i","n","-","x">> }
TitleSeps == { <<>>, <<" ">>, <<" "," ">> }

\* the strings passed to updateSelect for a group: the group's own option
\* values, strings that are no option value of any group, and option values
\* of other groups
SelectValues(k) == OptionValues(k) \cup {"", "NONE", "unknown", "strong", "severe"}

\* the hazard keys, statuses and notes used while the two data paths are compared
PathKeys == {"tornado", "hail"}
NoteTexts == { <<>>, <<"t","r","a","i","n","e","d"," ","s","p","o","t","t","e","r">> }

\* the texts typed into the location and time window inputs
LocationTexts == { <<>>, <<"L","i","s","t","o","w","e","l">> }
TimeWindowTexts == { <<>>, <<"t","h","e"," ","n","e","x","t"," ","3","0"," ","t","o"," ","6","0"," ","m","i","n","u","t","e","s">> }

\* the links pasted into the polygon textbox
PolyLinks == {
    <<>>,
    <<"h","t","t","p","s",":","/","/","i","n","s","t","a","n","t","w","e","a","t","h","e","r",".","c","a","/","l","o","g","i","n","/","a","d","m","i","n","/","c","u","s","t","o","m","/","4","5",".","0","8","4"," ","-","7","8",".","0","9","8",",","4","5",".","3","2","6"," ","-","7","7",".","3","8","6",",","4","4",".","8","9","8"," ","-","7","6",".","8","7","7">>,
    <<"h","t","t","p","s",":","/","/","i","n","s","t","a","n","t","w","e","a","t","h","e","r",".","c","a","/","l","o","g","i","n","/","a","d","m","i","n","/","c","u","s","t","o","m","/","4","5",".","0","8","4","%","2","0","-","7","8",".","0","9","8","%","2","C","4","5",".","3","2","6","%","2","0","-","7","7",".","3","8","6","%","2","C","4","4",".","8","9","8","%","2","0","-","7","6",".","8","7","7","%","2","C","4","4",".","7","6","9","%","2","0","-","7","7",".","9","6","2","%","2","C","4","5",".","0","8","4","%","2","0","-","7","8",".","0","9","8">>,
    <<"h","t","t","p","s",":","/","/","i","n","s","t","a","n","t","w","e","a","t","h","e","r",".","c","a","/","l","o","g","i","n","/","a","d","m","i","n","/","c","u","s","t","o","m","/","4","5",".","0","8","4"," ","-","7","8",".","0","9","8",",","4","5",".","3","2","6"," ","-","7","7",".","3","8","6">>,
    <<"n","o","t"," ","a"," ","l","i","n","k">> }

\* the hazard selects used while the preview controls are explored
PreviewKeys == {"tornado", "wind"}

\* the useState initial values
Init ==
    /\ mode = "storm"
    /\ province = <<"O","N">>
    /\ addHashtags = FALSE
    /\ selection = [k \in HazardKeys |-> HAZARDS[k][1]]
    /\ status = [k \in HazardKeys |-> "detected"]
    /\ majorPopPath = FALSE
    /\ hailMajorPop = FALSE
    /\ hailMax = ""
    /\ windMax = <<>>
    /\ rainMax = <<>>
    /\ funnelSubtype = "non"
    /\ regionalChoice = "null"
    /\ regionalTornadoRisk = FALSE
    /\ callItems = <<>>
    /\ callStr = <<>>
    /\ lastSelect = <<>>
    /\ location = <<>>
    /\ direction = <<"e","a","s","t">>
    /\ speed = <<>>
    /\ towns = <<>>
    /\ timeWindow = <<"t","h","e"," ","n","e","x","t"," ","3","0"," ","t","o"," ","6","0"," ","m","i","n","u","t","e","s">>
    /\ regions = <<>>
    /\ regionalSevere = [hail |-> TRUE, wind |-> TRUE, heavyRain |-> TRUE, lightning |-> TRUE]
    /\ regionalTornadoRiskLevel = <<"l","o","w">>
    /\ funnelReporter = <<>>
    /\ reportNotes = [k \in HazardKeys |-> <<>>]
    /\ polyUrl = <<>>
    /\ polyCoords = <<>>
    /\ parseClicked = <<>>

\* findOption falling back to the last option of the group
findOption_lastOnUnknown(groupKey, value) ==
    LET options == HAZARDS[groupKey]
    IN  IF \E i \in 1..Len(options) : options[i].value = value
        THEN options[CHOOSE i \in 1..Len(options) :
                       options[i].value = value /\ \A j \in 1..(i-1) : options[j].value # value]
        ELSE options[Len(options)]

\* group.options.find((o) => o.value === value) ?? group.options[0]
findOption(groupKey, value) ==
    LET options == HAZARDS[groupKey]
    IN  IF \E i \in 1..Len(options) : options[i].value = value
        THEN options[CHOOSE i \in 1..Len(options) :
                       options[i].value = value /\ \A j \in 1..(i-1) : options[j].value # value]
        ELSE options[1]

\* updateSelect: the next selection
updateSelect(sel, groupKey, value) == [sel EXCEPT ![groupKey] = findOption(groupKey, value)]

\* the mode toggle buttons
SetMode(m) ==
    /\ mode' = m
    /\ UNCHANGED <<selection, status, majorPopPath, hailMajorPop, previewVars, detailVars,
                   regionalVars, callVars, descVars, polyVars>>

\* the province <select>
SetProvince(p) ==
    /\ province' = p
    /\ UNCHANGED <<mode, addHashtags, selection, status, majorPopPath, hailMajorPop,
                   detailVars, regionalVars, callVars, descVars, polyVars>>

\* the "Add province hashtags to headline" checkbox
ToggleAddHashtags ==
    /\ addHashtags' = ~addHashtags
    /\ UNCHANGED <<mode, province, selection, status, majorPopPath, hailMajorPop,
                   detailVars, regionalVars, callVars, descVars, polyVars>>

\* majorPopPath after a select change, cleared by the tornado select only
majorPopPathAfter_tornadoOnly(key, val, flag) ==
    IF key = "tornado" /\ val = "none" THEN FALSE ELSE flag

\* majorPopPath after onChange of the <select> of hazard key with value val:
\* if (key === "tornado" && val === "none") setMajorPopPath(false);
\* if (key === "rotation" && !["strong","intense"].includes(val)) setMajorPopPath(false);
majorPopPathAfter(key, val, flag) ==
    IF \/ (key = "tornado" /\ val = "none")
       \/ (key = "rotation" /\ val \notin {"strong", "intense"})
    THEN FALSE ELSE flag

\* onChange of the <select> of hazard key (rendered in storm mode only); a
\* <select> fires onChange only for a value other than the one it shows
HazardSelectChange(key, val) ==
    /\ mode = "storm"
    /\ val \in OptionValues(key)
    /\ val # selection[key].value
    /\ selection' = updateSelect(selection, key, val)
    /\ hailMax' = IF key = "hail" /\ val = "none" THEN "" ELSE hailMax
    /\ hailMajorPop' = IF key = "hail" /\ val = "none" THEN FALSE ELSE hailMajorPop
    /\ majorPopPath' = majorPopPathAfter(key, val, majorPopPath)
    /\ funnelSubtype' = IF key = "funnel" /\ val # "reported" THEN "non" ELSE funnelSubtype
    /\ windMax' = IF key = "wind" /\ (val = "sub_severe" \/ val = "none") THEN <<>> ELSE windMax
    /\ rainMax' = IF key = "flooding" /\ val = "none" THEN <<>> ELSE rainMax
    /\ UNCHANGED <<mode, status, previewVars, regionalVars, callVars, descVars, polyVars>>

\* the "Major population in path" checkbox of the rotation and tornado cards
ToggleMajorPopPath ==
    /\ mode = "storm"
    /\ \/ selection["rotation"].value \in {"strong", "intense"}
       \/ selection["tornado"].value \in {"reported", "damaging_reported"}
    /\ majorPopPath' = ~majorPopPath
    /\ UNCHANGED <<mode, selection, status, hailMajorPop, previewVars, detailVars,
                   regionalVars, callVars, descVars, polyVars>>

\* the "Major population in path" checkbox of the hail card
ToggleHailMajorPop ==
    /\ mode = "storm"
    /\ selection["hail"].value # "none"
    /\ selection["hail"].value \in {"large", "very_large"}
    /\ hailMajorPop' = ~hailMajorPop
    /\ UNCHANGED <<mode, selection, status, majorPopPath, previewVars, detailVars,
                   regionalVars, callVars, descVars, polyVars>>

\* the Detected / Reported buttons (rendered for hail, wind and flooding)
UpdateStatus(key, val) ==
    /\ mode = "storm"
    /\ key \notin {"rotation", "funnel", "tornado"}
    /\ status' = [status EXCEPT ![key] = val]
    /\ UNCHANGED <<mode, selection, majorPopPath, hailMajorPop, previewVars, detailVars,
                   regionalVars, callVars, descVars, polyVars>>

\* the "Notification focus" radio buttons (rendered in regional mode only)
SetRegionalChoice(c) ==
    /\ mode = "regional"
    /\ regionalChoice' = c
    /\ UNCHANGED <<mode, selection, status, majorPopPath, hailMajorPop, previewVars,
                   detailVars, regionalTornadoRisk, callVars, descVars, polyVars>>

\* the "Mention tornado risk" checkbox (rendered while the choice is severe)
ToggleRegionalTornadoRisk ==
    /\ mode = "regional"
    /\ regionalChoice = "severe"
    /\ regionalTornadoRisk' = ~regionalTornadoRisk
    /\ UNCHANGED <<mode, selection, status, majorPopPath, hailMajorPop, previewVars,
                   detailVars, regionalChoice, callVars, descVars, polyVars>>

\* the "Current location" input (rendered in storm mode)
SetLocation(v) ==
    /\ mode = "storm"
    /\ location' = v
    /\ UNCHANGED <<mode, selection, status, majorPopPath, hailMajorPop, previewVars,
                   detailVars, regionalVars, callVars, direction, speed, towns,
                   funnelReporter, reportNotes, regionalTextVars, timeWindow, polyVars>>

\* the "Time window" input of storm mode and the "Timeframe" input of regional
\* mode: both write timeWindow
SetTimeWindow(v) ==
    /\ timeWindow' = v
    /\ UNCHANGED <<mode, selection, status, majorPopPath, hailMajorPop, previewVars,
                   detailVars, regionalVars, callVars, stormTextVars, regionalTextVars, polyVars>>

\* the polygon link textbox (rendered in storm mode)
SetPolyUrl(u) ==
    /\ mode = "storm"
    /\ polyUrl' = u
    /\ UNCHANGED <<mode, selection, status, majorPopPath, hailMajorPop, previewVars,
                   detailVars, regionalVars, callVars, descVars, polyCoords, parseClicked>>

\* onClick of the "Parse & show" button.  Its first statement reads the
\* identifier polygonUrl, which no scope declares: the handler ends there with
\* a ReferenceError.  The statements after it draw on the map through
\* polygonLayerRef and L, also undeclared, and none of them calls
\* setPolyCoords or handleParsePolygon.  No cell is written on either path;
\* parseClicked records that the button was clicked on this link.
ParseAndShow ==
    /\ mode = "storm"
    /\ parseClicked' = <<polyUrl>>
    /\ UNCHANGED <<mode, selection, status, majorPopPath, hailMajorPop, previewVars,
                   detailVars, regionalVars, callVars, descVars, polyUrl, polyCoords>>

\* The state setters themselves, called with any argument in any order (what a
\* test harness of the component can do): they reach every combination of the
\* inputs of the severity resolver.
CallSetMajorPopPath(b) ==
    /\ majorPopPath' = b
    /\ UNCHANGED <<mode, selection, status, hailMajorPop, previewVars, detailVars,
                   regionalVars, callVars, descVars, polyVars>>

CallSetHailMajorPop(b) ==
    /\ hailMajorPop' = b
    /\ UNCHANGED <<mode, selection, status, majorPopPath, previewVars, detailVars,
                   regionalVars, callVars, descVars, polyVars>>

CallUpdateSelect(key, val) ==
    /\ selection' = updateSelect(selection, key, val)
    /\ UNCHANGED <<mode, status, majorPopPath, hailMajorPop, previewVars, detailVars,
                   regionalVars, callVars, descVars, polyVars>>

\* direct calls of the remaining setters the two data paths read
CallUpdateStatus(key, val) ==
    /\ status' = [status EXCEPT ![key] = val]
    /\ UNCHANGED <<mode, selection, majorPopPath, hailMajorPop, previewVars, detailVars,
                   regionalVars, callVars, descVars, polyVars>>

CallUpdateReportNote(key, val) ==
    /\ reportNotes' = [reportNotes EXCEPT ![key] = val]
    /\ UNCHANGED <<mode, selection, status, majorPopPath, hailMajorPop, previewVars,
                   detailVars, regionalVars, callVars, location, direction, speed, towns,
                   funnelReporter, regionalTextVars, timeWindow, polyVars>>

CallSetRegionalChoice(c) ==
    /\ regionalChoice' = c
    /\ UNCHANGED <<mode, selection, status, majorPopPath, hailMajorPop, previewVars,
                   detailVars, regionalTornadoRisk, callVars, descVars, polyVars>>

CallSetRegionalTornadoRisk(b) ==
    /\ regionalTornadoRisk' = b
    /\ UNCHANGED <<mode, selection, status, majorPopPath, hailMajorPop, previewVars,
                   detailVars, regionalChoice, callVars, descVars, polyVars>>

\* a direct call updateSelect(groupKey, value) with any string as value
CallUpdateSelectValue(key, val) ==
    /\ selection' = updateSelect(selection, key, val)
    /\ lastSelect' = <<key, val>>
    /\ UNCHANGED <<mode, status, majorPopPath, hailMajorPop, previewVars, detailVars,
                   regionalVars, callItems, callStr, descVars, polyVars>>

\* a direct call updateSelect(key, val) that leaves at most MaxSelected hazards
\* selected
CallUpdateSelectUpTo(key, val) ==
    /\ Cardinality({k \in HazardKeys : updateSelect(selection, key, val)[k].level > 0})
           <= MaxSelected
    /\ selection' = updateSelect(selection, key, val)
    /\ UNCHANGED <<mode, status, majorPopPath, hailMajorPop, previewVars, detailVars,
                   regionalVars, callVars, descVars, polyVars>>

\* a direct call joinForHeadline(items): the argument grows by one phrase
CallJoinAppend(phrase) ==
    /\ Len(callItems) < MaxItems
    /\ callItems' = Append(callItems, phrase)
    /\ UNCHANGED <<mode, selection, status, majorPopPath, hailMajorPop, previewVars,
                   detailVars, regionalVars, callStr, lastSelect, descVars, polyVars>>

\* a direct call nytTitleCase(str): the argument grows by a separator and a word
CallTitleAppend(sep, word) ==
    /\ Len(callStr) < MaxTitleLen
    /\ callStr' = callStr \o sep \o word
    /\ UNCHANGED <<mode, selection, status, majorPopPath, hailMajorPop, previewVars,
                   detailVars, regionalVars, callItems, lastSelect, descVars, polyVars>>

-----------------------------------------------------------------------------
(* Specifications *)

\* The severity panel as the user drives it: mode switches, hazard selections
\* and the two population checkboxes, each enabled while its control is rendered.
Next ==
    \/ \E m \in Modes : SetMode(m)
    \/ \E k \in HazardKeys : \E v \in OptionValues(k) : HazardSelectChange(k, v)
    \/ ToggleMajorPopPath
    \/ ToggleHailMajorPop

Spec == Init /\ [][Next]_vars

\* The inputs of the severity resolver under direct setter calls.
NextSetters ==
    \/ \E m \in Modes : SetMode(m)
    \/ \E k \in HazardKeys : \E v \in OptionValues(k) : CallUpdateSelect(k, v)
    \/ \E b \in BOOLEAN : CallSetMajorPopPath(b)
    \/ \E b \in BOOLEAN : CallSetHailMajorPop(b)

SpecSetters == Init /\ [][NextSetters]_vars

\* The storm panel with the status buttons; the mode stays storm.
NextHeadline ==
    \/ \E k \in HazardKeys : \E v \in OptionValues(k) : HazardSelectChange(k, v)
    \/ ToggleMajorPopPath
    \/ ToggleHailMajorPop
    \/ \E k \in HazardKeys : \E v \in HazardStatuses : UpdateStatus(k, v)

SpecHeadline == Init /\ [][NextHeadline]_vars

\* Both modes: the severity panel and the regional controls.
NextRegional ==
    \/ Next
    \/ \E c \in {"funnel", "severe"} : SetRegionalChoice(c)
    \/ ToggleRegionalTornadoRisk

SpecRegional == Init /\ [][NextRegional]_vars

\* The preview controls (province, hashtags) in both modes, with two of the
\* hazard selects.
NextPreview ==
    \/ \E i \in 1..Len(ProvinceCodes) : SetProvince(ProvinceCodes[i])
    \/ ToggleAddHashtags
    \/ \E m \in Modes : SetMode(m)
    \/ \E k \in PreviewKeys : \E v \in OptionValues(k) : HazardSelectChange(k, v)
    \/ ToggleMajorPopPath
    \/ \E c \in {"funnel", "severe"} : SetRegionalChoice(c)
    \/ ToggleRegionalTornadoRisk

SpecPreview == Init /\ [][NextPreview]_vars

\* Direct calls of joinForHeadline on lists of up to MaxItems phrases.
NextJoin == \E p \in JoinPhrases : CallJoinAppend(p)

SpecJoin == Init /\ [][NextJoin]_vars

\* Both data paths under direct setter calls: the storm fields are written
\* while the mode is regional and the regional fields while it is storm.
NextPaths ==
    \/ \E m \in Modes : SetMode(m)
    \/ \E k \in PathKeys : \E v \in OptionValues(k) : CallUpdateSelect(k, v)
    \/ \E b \in BOOLEAN : CallSetMajorPopPath(b)
    \/ \E b \in BOOLEAN : CallSetHailMajorPop(b)
    \/ \E v \in HazardStatuses : CallUpdateStatus("hail", v)
    \/ \E k \in PathKeys : \E v \in NoteTexts : CallUpdateReportNote(k, v)
    \/ \E c \in {"funnel", "severe", "null"} : CallSetRegionalChoice(c)
    \/ \E b \in BOOLEAN : CallSetRegionalTornadoRisk(b)

SpecPaths == Init /\ [][NextPaths]_vars

\* The storm panel with the location and time window inputs; the mode stays
\* storm.
NextStormText ==
    \/ \E k \in HazardKeys : \E v \in OptionValues(k) : HazardSelectChange(k, v)
    \/ ToggleMajorPopPath
    \/ \E v \in LocationTexts : SetLocation(v)
    \/ \E v \in TimeWindowTexts : SetTimeWindow(v)

SpecStormText == Init /\ [][NextStormText]_vars

\* The polygon tools of storm mode, with the province select and the mode
\* buttons.  The "Fill towns from polygon" button is disabled while polyCoords
\* is null, which is in every state of this specification.
NextPolygon ==
    \/ \E u \in PolyLinks : SetPolyUrl(u)
    \/ ParseAndShow
    \/ \E i \in 1..Len(ProvinceCodes) : SetProvince(ProvinceCodes[i])
    \/ \E m \in Modes : SetMode(m)

SpecPolygon == Init /\ [][NextPolygon]_vars

\* Storm mode under direct calls of updateSelect and updateStatus: every status
\* record, the three keys whose buttons are never rendered included.
NextStatus ==
    \/ \E k \in HazardKeys : \E v \in OptionValues(k) : CallUpdateSelectUpTo(k, v)
    \/ \E k \in HazardKeys : \E v \in HazardStatuses : CallUpdateStatus(k, v)

SpecStatus == Init /\ [][NextStatus]_vars

\* Direct calls of updateSelect with known and unknown values.
NextSelect == \E k \in HazardKeys : \E v \in SelectValues(k) : CallUpdateSelectValue(k, v)

SpecSelect == Init /\ [][NextSelect]_vars

\* Direct calls of nytTitleCase on strings built from TitleWords.
NextTitle == \E s \in TitleSeps : \E w \in TitleWords : CallTitleAppend(s, w)

SpecTitle == Init /\ [][NextTitle]_vars

-----------------------------------------------------------------------------
(* Severity level *)

AllNone == \A k \in HazardKeys : selection[k].value = "none"

\* C1: in every state the user can reach, the final severity level is one of
\* 1, 2, 3, 4 and the lookup of that id in LEVELS finds the entry with that id.
C1_FinalLevelInRange ==
    /\ finalLevelId \in {1, 2, 3, 4}
    /\ Len(findLevel(finalLevelId)) = 1
    /\ finalLevelMeta.id = finalLevelId

\* a state where an override, not the base level, decides the final level
C1_Witness ==
    /\ mode = "storm"
    /\ majorPopPath
    /\ selection["tornado"].value = "damaging_reported"
    /\ baseOverall = 3
    /\ finalLevelId = 4

\* C2: in storm mode a destructive wind selection gives final level 4, whatever
\* the other five selections and the two population flags are.
C2_DestructiveWindIsEmergency ==
    (mode = "storm" /\ selection["wind"].value = "destructive") => finalLevelId = 4

C2_Witness ==
    /\ mode = "storm"
    /\ selection["wind"].value = "destructive"
    /\ selection["rotation"].value = "strong"
    /\ selection["hail"].value = "none"
    /\ majorPopPath
    /\ hailMajorPop
    /\ finalLevelId = 4

\* C3: in regional mode the final level is 1, whatever selection and flags were
\* left by storm mode.
C3_RegionalIsPrepare == mode = "regional" => finalLevelId = 1

C3_Witness ==
    /\ mode = "regional"
    /\ selection["wind"].value = "destructive"
    /\ selection["tornado"].value = "damaging_reported"
    /\ majorPopPath
    /\ hailMajorPop
    /\ finalLevelId = 1

\* C4: in storm mode with all six hazards "none" the final level is 1, whatever
\* the two population flags are.
C4_AllNoneIsPrepare == (mode = "storm" /\ AllNone) => finalLevelId = 1

C4_Witness ==
    /\ mode = "storm"
    /\ AllNone
    /\ majorPopPath
    /\ hailMajorPop
    /\ maxLevel(selection) = 0
    /\ finalLevelId = 1

-----------------------------------------------------------------------------
(* Headline *)

\* C5: in storm mode with tornado = damaging_reported and majorPopPath set, for
\* every choice of the other hazards and statuses the final level is 4 and the
\* headline without hashtags starts with "EMERGENCY:" and contains
\* "DAMAGING TORNADO REPORTED".
C5_DamagingTornadoHeadline ==
    (/\ mode = "storm"
     /\ selection["tornado"].value = "damaging_reported"
     /\ majorPopPath
     /\ ~addHashtags)
    => /\ finalLevelId = 4
       /\ startsWith(headline, <<"E","M","E","R","G","E","N","C","Y",":">>)
       /\ includes(headline, <<"D","A","M","A","G","I","N","G"," ","T","O","R","N","A","D","O"," ","R","E","P","O","R","T","E","D">>)

\* the rule, not the base level, makes it an emergency; other hazards are selected
C5_Witness ==
    /\ mode = "storm"
    /\ selection["tornado"].value = "damaging_reported"
    /\ majorPopPath
    /\ ~addHashtags
    /\ baseOverall = 3
    /\ selection["hail"].value = "very_large"
    /\ status["hail"] = "reported"
    /\ selection["funnel"].value = "reported"
    /\ headline = <<"E","M","E","R","G","E","N","C","Y",":"," ","D","A","M","A","G","I","N","G"," ","T","O","R","N","A","D","O"," ","R","E","P","O","R","T","E","D",","," ","V","E","R","Y"," ","L","A","R","G","E"," ","H","A","I","L"," ","R","E","P","O","R","T","E","D"," ","&"," ","F","U","N","N","E","L"," ","C","L","O","U","D"," ","R","E","P","O","R","T","E","D">>

\* C6 as stated: in storm mode with all hazards "none" and hashtags off the
\* headline is exactly "Prepare: Hazardous Weather Detected".
C6_Original ==
    (mode = "storm" /\ AllNone /\ ~addHashtags)
    => headline = <<"P","r","e","p","a","r","e",":"," ","H","a","z","a","r","d","o","u","s"," ","W","e","a","t","h","e","r"," ","D","e","t","e","c","t","e","d">>

\* C6 as amended: in storm mode with all hazards "none" and hashtags off the
\* headline is exactly "PREPARE: Hazardous Weather Detected": the label is
\* upper-cased and the hazard text is in title case.
C6_AllNoneHeadline ==
    (mode = "storm" /\ AllNone /\ ~addHashtags)
    => /\ finalLevelId = 1
       /\ headline = <<"P","R","E","P","A","R","E",":"," ","H","a","z","a","r","d","o","u","s"," ","W","e","a","t","h","e","r"," ","D","e","t","e","c","t","e","d">>

\* all hazards are "none" again after a selection was made and withdrawn
C6_Witness ==
    /\ mode = "storm"
    /\ AllNone
    /\ ~addHashtags
    /\ status["wind"] = "reported"
    /\ status["hail"] = "reported"
    /\ headline = <<"P","R","E","P","A","R","E",":"," ","H","a","z","a","r","d","o","u","s"," ","W","e","a","t","h","e","r"," ","D","e","t","e","c","t","e","d">>

\* C7 as stated: in regional mode with regionalChoice = "funnel" and hashtags
\* off the headline is exactly "Prepare: Funnel Cloud Potential".
C7_Original ==
    (mode = "regional" /\ regionalChoice = "funnel" /\ ~addHashtags)
    => headline = <<"P","r","e","p","a","r","e",":"," ","F","u","n","n","e","l"," ","C","l","o","u","d"," ","P","o","t","e","n","t","i","a","l">>

\* C7 as amended: in regional mode with regionalChoice = "funnel" and hashtags
\* off the headline is exactly "PREPARE: Funnel Cloud Potential", whatever the
\* tornado-risk flag and the storm-mode state are.
C7_FunnelHeadline ==
    (mode = "regional" /\ regionalChoice = "funnel" /\ ~addHashtags)
    => headline = <<"P","R","E","P","A","R","E",":"," ","F","u","n","n","e","l"," ","C","l","o","u","d"," ","P","o","t","e","n","t","i","a","l">>

\* the tornado-risk flag is set and storm mode left an emergency behind
C7_Witness ==
    /\ mode = "regional"
    /\ regionalChoice = "funnel"
    /\ regionalTornadoRisk
    /\ ~addHashtags
    /\ selection["wind"].value = "destructive"
    /\ majorPopPath
    /\ headline = <<"P","R","E","P","A","R","E",":"," ","F","u","n","n","e","l"," ","C","l","o","u","d"," ","P","o","t","e","n","t","i","a","l">>

\* C8: with addHashtags set the headline is "#PStorm #Pwx " followed by the
\* composed headline, P the province code as it is; without it the headline is
\* the composed headline.  The prefix is not case-transformed.
C8_HashtagPrefix ==
    /\ addHashtags =>
         /\ headline = <<"#">> \o province \o <<"S","t","o","r","m"," ","#">> \o province \o <<"w","x"," ">> \o headlineBase
         /\ province = <<"O","N">> => startsWith(headline, <<"#","O","N","S","t","o","r","m"," ","#","O","N","w","x"," ">>)
    /\ ~addHashtags => headline = headlineBase

\* hashtags on an all-caps headline of another province
C8_Witness ==
    /\ addHashtags
    /\ province = <<"N","L">>
    /\ mode = "storm"
    /\ finalLevelId = 4
    /\ headline = <<"#","N","L","S","t","o","r","m"," ","#","N","L","w","x"," ","E","M","E","R","G","E","N","C","Y",":"," ","D","E","S","T","R","U","C","T","I","V","E"," ","W","I","N","D","S"," ","D","E","T","E","C","T","E","D"," ","&"," ","T","O","R","N","A","D","O"," ","R","E","P","O","R","T","E","D">>

\* the list joiner written as a left fold: ", " before every item but the
\* first and the last, " & " before the last
joinExpected(xs) ==
    LET acc[i \in 1..Len(xs)] ==
            IF i = 1 THEN xs[1]
            ELSE acc[i-1] \o (IF i = Len(xs) THEN <<" ","&"," ">> ELSE <<","," ">>) \o xs[i]
    IN  IF Len(xs) = 0 THEN <<>> ELSE acc[Len(xs)]

\* number of places where p occurs in s
occurrences(s, p) ==
    Cardinality({i \in 1..(Len(s) - Len(p) + 1) : SubSeq(s, i, i + Len(p) - 1) = p})

\* C9: joinForHeadline gives "" for no item, the item for one, "A & B" for two
\* and "A, B, ... & Z" for three or more: the items in input order, once each,
\* one ampersand before the last and no comma before the ampersand.
C9_JoinForHeadline ==
    LET n == Len(callItems)
        r == joinForHeadline(callItems)
    IN  /\ n = 0 => r = <<>>
        /\ n = 1 => r = callItems[1]
        /\ n = 2 => r = callItems[1] \o <<" ","&"," ">> \o callItems[2]
        /\ r = joinExpected(callItems)
        /\ n >= 2 => /\ occurrences(r, <<"&">>) = 1
                     /\ occurrences(r, <<",">>) = n - 2
                     /\ ~includes(r, <<","," ","&">>)
        /\ \A p \in JoinPhrases :
               occurrences(r, p) = Cardinality({i \in 1..n : callItems[i] = p})

C9_Witness ==
    /\ Len(callItems) = 4
    /\ joinForHeadline(callItems) =
         <<"T","o","r","n","a","d","o"," ","R","e","p","o","r","t","e","d",","," ","S","e","v","e","r","e"," ","W","i","n","d","s"," ","R","e","p","o","r","t","e","d",","," ","L","a","r","g","e"," ","H","a","i","l"," ","D","e","t","e","c","t","e","d"," ","&"," ","T","o","r","n","a","d","o"," ","R","e","p","o","r","t","e","d">>

\* the text of the composed headline after "LABEL: "
hazardTextOf(h) == SubSeq(h, Len(finalLevelMeta.label) + 3, Len(h))

\* the joined phrases before the case transform
textRaw ==
    IF mode = "storm" THEN stormTextRaw(selection, status)
    ELSE regionalTextRaw(regionalChoice, regionalTornadoRisk)

\* C10: in both modes the hazard text of the composed headline is fully
\* upper-case exactly when the final level is 3 or 4, and at level 1 or 2 it is
\* the title-case transform of the joined phrases.
C10_CapsFromLevelThree ==
    LET text == hazardTextOf(headlineBase)
    IN  /\ (text = toUpperCase(text)) <=> (finalLevelId \in {3, 4})
        /\ finalLevelId \in {3, 4} => text = toUpperCase(textRaw)
        /\ finalLevelId \in {1, 2} => text = nytTitleCase(textRaw)

\* an override lifts level 2 to 3 and the text is in capitals
C10_Witness ==
    /\ mode = "storm"
    /\ baseOverall = 2
    /\ finalLevelId = 3
    /\ hailMajorPop
    /\ headlineBase = <<"C","R","I","T","I","C","A","L",":"," ","L","A","R","G","E"," ","H","A","I","L"," ","D","E","T","E","C","T","E","D">>

-----------------------------------------------------------------------------
(* Title case *)

\* C11: nytTitleCase returns unchanged every whitespace-separated word that
\* contains a letter, equals its own upper-casing and is longer than one
\* character, at any position of the string, also when the word lower-cased
\* is a small word; the other words keep their position.
C11_CapsWordsPreserved ==
    LET arr == splitWhitespace(callStr)
        out == splitWhitespace(nytTitleCase(callStr))
    IN  /\ Len(out) = Len(arr)
        /\ \A i \in 1..Len(arr) :
              (hasLetters(arr[i]) /\ arr[i] = toUpperCase(arr[i]) /\ Len(arr[i]) > 1)
                  => out[i] = arr[i]

\* an upper-cased small word in the middle of the string stays as it is
C11_Witness ==
    /\ callStr = <<"a"," ","O","F"," "," ","x","-","i","n">>
    /\ nytTitleCase(callStr) = <<"A"," ","O","F"," ","X","-","I","n">>

-----------------------------------------------------------------------------
(* Selection state *)

\* C12: after any sequence of updateSelect calls, with known or unknown
\* values, the selection holds for each of the six hazard keys one option of
\* that key's own HAZARDS group; a known value selects its option, an unknown
\* value selects the group's first option, which is "none" with level 0; and
\* updateSelect(k, v) leaves the options of the other five keys unchanged.
C12_SelectionWellFormed ==
    /\ [](/\ DOMAIN selection = HazardKeys
          /\ \A k \in HazardKeys :
                \E i \in 1..Len(HAZARDS[k]) : selection[k] = HAZARDS[k][i]
          /\ lastSelect # <<>> =>
                LET k == lastSelect[1]
                    v == lastSelect[2]
                IN  /\ v \in OptionValues(k) => selection[k].value = v
                    /\ v \notin OptionValues(k) =>
                          /\ selection[k] = HAZARDS[k][1]
                          /\ selection[k].value = "none"
                          /\ selection[k].level = 0)
    /\ [][\A j \in HazardKeys \ {lastSelect'[1]} : selection'[j] = selection[j]]_vars

\* a value of another group is unknown to the hail group and resets hail only
C12_Witness ==
    /\ lastSelect = <<"hail", "strong">>
    /\ selection["hail"].value = "none"
    /\ selection["wind"].value = "destructive"
    /\ selection["rotation"].value = "strong"

-----------------------------------------------------------------------------
(* Data paths *)

\* the cells only the storm path reads, and the cells only the regional
\* headline reads
stormPathVars == <<selection, status, reportNotes, majorPopPath, hailMajorPop>>
regionalPathVars == <<regionalChoice, regionalTornadoRisk>>

\* C13: only one data path is active at a time.  In regional mode a step
\* that changes nothing but hazard selection, hazard status, report notes,
\* majorPopPath or hailMajorPop changes neither the final level nor the
\* headline nor the description; in storm mode a step that changes nothing
\* but regionalChoice or regionalTornadoRisk does not change the headline;
\* and a mode switch changes none of those stored cells, so the level and the
\* headline of the storm path are those of the cells it left behind.
C13_OneActivePath ==
    [][/\ (mode = "regional" /\ UNCHANGED <<mode, previewVars, detailVars, regionalVars,
                                            location, direction, speed, towns,
                                            funnelReporter, regionalTextVars, timeWindow>>)
          => /\ finalLevelIdOf(cells') = finalLevelIdOf(cells)
             /\ headlineOf(cells') = headlineOf(cells)
             /\ descriptionOf(cells') = descriptionOf(cells)
       /\ (mode = "storm" /\ UNCHANGED <<mode, stormPathVars, previewVars, detailVars,
                                         location, direction, speed, towns,
                                         funnelReporter, regionalTextVars, timeWindow>>)
          => headlineOf(cells') = headlineOf(cells)
       /\ mode' # mode
          => /\ UNCHANGED <<stormPathVars, regionalPathVars>>
             /\ mode' = "storm" =>
                   /\ finalLevelIdOf(cells') = finalLevelIdOf([cells EXCEPT !.mode = "storm"])
                   /\ headlineOf(cells') = headlineOf([cells EXCEPT !.mode = "storm"])
      ]_vars

\* regional mode on top of a storm state that would be an emergency
C13_Witness ==
    /\ mode = "regional"
    /\ selection["tornado"].value = "damaging_reported"
    /\ selection["hail"].value = "very_large"
    /\ majorPopPath /\ hailMajorPop
    /\ status["hail"] = "reported"
    /\ reportNotes["tornado"] = <<"t","r","a","i","n","e","d"," ","s","p","o","t","t","e","r">>
    /\ regionalChoice = "severe" /\ regionalTornadoRisk
    /\ finalLevelId = 1
    /\ headline = <<"P","R","E","P","A","R","E",":"," ","S","e","v","e","r","e"," ","T","h","u","n","d","e","r","s","t","o","r","m"," ","P","o","t","e","n","t","i","a","l"," ","&"," ","T","o","r","n","a","d","o"," ","R","i","s","k">>
    /\ Len(descriptionParagraphs) = 4

-----------------------------------------------------------------------------
(* Polygon tool protocol *)

\* C14, as the claim states it: after the user pastes a link that holds at
\* least 3 valid coordinate pairs and clicks "Parse & show", the parsed polygon
\* is stored (polyCoords is not null) and "Fill towns from polygon" is enabled.
C14_Original ==
    (Len(parseClicked) # 0 /\ Len(coordPairs(parseClicked[1])) >= 3)
        => (Len(polyCoords) # 0 /\ fillTownsEnabled)

-----------------------------------------------------------------------------
(* Storm description *)

\* the number of hazards whose selected option has level > 0
selectedCount == Cardinality({k \in HazardKeys : selection[k].level > 0})

\* C15: in storm mode the description is the blank-line-joined sequence, in
\* this order, of the context paragraph (always), the "Primary threat"
\* paragraph (exactly when at least one hazard has level > 0), the "Additional
\* threat(s)" paragraph (exactly when at least two hazards have level > 0),
\* the "What you should do" paragraph (always) and the "Reports" paragraph
\* (always); no paragraph is empty and there are 3 + min(n, 2) of them for n
\* selected hazards.
C15_StormParagraphs ==
    mode = "storm" =>
        LET n == selectedCount
            ps == descriptionParagraphs
            m == Len(ps)
        IN  /\ description = join(ps, <<"\n", "\n">>)
            /\ m = 3 + Min(n, 2)
            /\ \A i \in 1..m : Len(ps[i]) > 0
            /\ startsWith(ps[1], <<"T","h","i","s"," ","n","o","t","i","f","i","c","a","t","i","o","n"," ","i","s"," ","c","a","t","e","g","o","r","i","z","e","d"," ","a","s"," ">>)
            /\ n >= 1 <=> (\E i \in 1..m : startsWith(ps[i], <<"P","r","i","m","a","r","y"," ","t","h","r","e","a","t",":"," ">>))
            /\ n >= 1 => startsWith(ps[2], <<"P","r","i","m","a","r","y"," ","t","h","r","e","a","t",":"," ">>)
            /\ n >= 2 <=> (\E i \in 1..m : startsWith(ps[i], <<"A","d","d","i","t","i","o","n","a","l"," ","t","h","r","e","a","t">>))
            /\ n >= 2 => startsWith(ps[3], <<"A","d","d","i","t","i","o","n","a","l"," ","t","h","r","e","a","t">>)
            /\ startsWith(ps[m - 1], <<"W","h","a","t"," ","y","o","u"," ","s","h","o","u","l","d"," ","d","o",":"," ">>)
            /\ startsWith(ps[m], <<"R","e","p","o","r","t","s",":"," ">>)

\* three hazards selected: all five paragraphs, the third one in the plural
C15_Witness ==
    /\ mode = "storm"
    /\ selectedCount = 3
    /\ selection["tornado"].value = "reported"
    /\ location = <<"L","i","s","t","o","w","e","l">>
    /\ timeWindow = <<>>
    /\ Len(descriptionParagraphs) = 5
    /\ startsWith(descriptionParagraphs[2], <<"P","r","i","m","a","r","y"," ","t","h","r","e","a","t",":"," ","a"," ","t","o","r","n","a","d","o",","," ","r","e","p","o","r","t","e","d",".">>)
    /\ startsWith(descriptionParagraphs[3], <<"A","d","d","i","t","i","o","n","a","l"," ","t","h","r","e","a","t","s",":"," ">>)

-----------------------------------------------------------------------------
(* Reporting call-to-action *)

\* C16: for each of the 13 province codes the reporting call-to-action names
\* "Ontario Storm Reports" with a URL for ON, "<full name> Storm Reports" with
\* a URL for the Prairie provinces AB, SK and MB, "Atlantic Canada Storm
\* Reports" with a URL for the Atlantic provinces (New Brunswick, Nova Scotia,
\* Prince Edward Island, Newfoundland and Labrador), and a generated
\* "<full name> Storm Reports" with no URL for every other province; the last
\* paragraph of the description carries that group in both modes.
C16_Original ==
    LET info == getStormReportGroupInfo(province)
        full == PROVINCE_FULL(province)
        ps == descriptionParagraphs
        expectedName ==
            IF province = <<"O","N">> THEN <<"O","n","t","a","r","i","o"," ","S","t","o","r","m"," ","R","e","p","o","r","t","s">>
            ELSE IF province \in { <<"A","B">>, <<"S","K">>, <<"M","B">> }
            THEN full \o <<" ","S","t","o","r","m"," ","R","e","p","o","r","t","s">>
            ELSE IF province \in { <<"N","B">>, <<"N","S">>, <<"P","E">>, <<"N","L">> }
            THEN <<"A","t","l","a","n","t","i","c"," ","C","a","n","a","d","a"," ","S","t","o","r","m"," ","R","e","p","o","r","t","s">>
            ELSE full \o <<" ","S","t","o","r","m"," ","R","e","p","o","r","t","s">>
        expectsUrl ==
            province \in { <<"O","N">>, <<"A","B">>, <<"S","K">>, <<"M","B">>,
                           <<"N","B">>, <<"N","S">>, <<"P","E">>, <<"N","L">> }
    IN  /\ info.name = expectedName
        /\ (Len(info.url) # 0) <=> expectsUrl
        /\ startsWith(ps[Len(ps)],
                <<"R","e","p","o","r","t","s",":"," ","H","a","v","e"," ","a"," ","r","e","p","o","r","t","?"," ","I","f"," ","i","t"," ","i","s"," ","s","a","f","e",","," ","p","l","e","a","s","e"," ","p","o","s","t"," ","t","o"," ">> \o expectedName
                \o (IF expectsUrl THEN <<" ","(","h","t","t","p","s",":","/","/","w","w","w",".","f","a","c","e","b","o","o","k",".","c","o","m","/","g","r","o","u","p","s","/">> ELSE <<"."," ","I","n","c","l","u","d","e">>))

-----------------------------------------------------------------------------
(* Override rules *)

\* the largest element of a non-empty set of numbers
MaxOf(S) == CHOOSE x \in S : \A y \in S : y <= x

\* C17: in storm mode with wind not "destructive" the final level is the
\* maximum of the base level clamp(max option level, 1, 4) and of 3 for
\* rotation = strong with majorPopPath, 4 for rotation = intense with
\* majorPopPath, 3 for tornado = reported with majorPopPath, 4 for tornado =
\* damaging_reported with majorPopPath, 3 for hail = large with hailMajorPop
\* and 4 for hail = very_large with hailMajorPop; hail = large with
\* hailMajorPop gives at least 3, and with both flags false the final level is
\* the base level.
C17_MaxOfBaseAndOverrides ==
    (mode = "storm" /\ selection["wind"].value # "destructive") =>
        LET base == Min(Max(MaxOf({selection[k].level : k \in HazardKeys}), 1), 4)
            raised ==
                {base}
                \cup (IF selection["rotation"].value = "strong" /\ majorPopPath THEN {3} ELSE {})
                \cup (IF selection["rotation"].value = "intense" /\ majorPopPath THEN {4} ELSE {})
                \cup (IF selection["tornado"].value = "reported" /\ majorPopPath THEN {3} ELSE {})
                \cup (IF selection["tornado"].value = "damaging_reported" /\ majorPopPath THEN {4} ELSE {})
                \cup (IF hailMajorPop /\ selection["hail"].value = "large" THEN {3} ELSE {})
                \cup (IF hailMajorPop /\ selection["hail"].value = "very_large" THEN {4} ELSE {})
        IN  /\ baseOverall = base
            /\ finalLevelId = MaxOf(raised)
            /\ (selection["hail"].value = "large" /\ hailMajorPop) => finalLevelId >= 3
            /\ (~majorPopPath /\ ~hailMajorPop) => finalLevelId = base

\* large hail over a populated area: the option's level is 2, the final level 3
C17_Witness ==
    /\ mode = "storm"
    /\ selection["wind"].value = "severe"
    /\ selection["hail"].value = "large"
    /\ selection["hail"].level = 2
    /\ selection["tornado"].value = "none"
    /\ selection["rotation"].value = "none"
    /\ hailMajorPop
    /\ ~majorPopPath
    /\ baseOverall = 2
    /\ finalLevelId = 3

\* C18: no override rule lowers severity: whatever the selection and the two
\* population flags are, the final level computeFinalLevel returns is at least
\* the base level it is given, which in storm mode is the level
\* resolveOverallLevel computes for the same selection.
C18_NeverBelowBase ==
    /\ finalLevelId >= baseOverall
    /\ mode = "storm" =>
           /\ baseOverall = resolveOverallLevel(selection)
           /\ computeFinalLevel(resolveOverallLevel(selection), selection,
                                majorPopPath, hailMajorPop, mode)
                  >= resolveOverallLevel(selection)

\* both flags set and a rule in force whose level is below the base level
C18_Witness ==
    /\ mode = "storm"
    /\ majorPopPath
    /\ hailMajorPop
    /\ selection["rotation"].value = "strong"
    /\ selection["hail"].value = "large"
    /\ selection["wind"].value = "damaging"
    /\ selection["flooding"].value = "significant"
    /\ baseOverall = 3
    /\ finalLevelId = 3

-----------------------------------------------------------------------------
(* Severity label in headline and description *)

\* C19: in both modes the composed headline before hashtags is the upper-cased
\* label of the final severity level (PREPARE, ACT, CRITICAL or EMERGENCY),
\* then ": ", then the case-transformed hazard text, and the description's
\* "categorized as <Label>" sentence names the label of the same final level.
C19_LabelOfFinalLevel ==
    LET label == CASE finalLevelId = 1 -> <<"P","r","e","p","a","r","e">>
                   [] finalLevelId = 2 -> <<"A","c","t">>
                   [] finalLevelId = 3 -> <<"C","r","i","t","i","c","a","l">>
                   [] finalLevelId = 4 -> <<"E","m","e","r","g","e","n","c","y">>
        upper == CASE finalLevelId = 1 -> <<"P","R","E","P","A","R","E">>
                   [] finalLevelId = 2 -> <<"A","C","T">>
                   [] finalLevelId = 3 -> <<"C","R","I","T","I","C","A","L">>
                   [] finalLevelId = 4 -> <<"E","M","E","R","G","E","N","C","Y">>
        first == descriptionParagraphs[1]
    IN  /\ headlineBase = upper \o <<":"," ">> \o caseTransform(textRaw, finalLevelId)
        /\ mode = "storm" =>
               startsWith(first, <<"T","h","i","s"," ","n","o","t","i","f","i","c","a","t","i","o","n"," ","i","s"," ","c","a","t","e","g","o","r","i","z","e","d"," ","a","s"," ">> \o label \o <<":">>)
        /\ mode = "regional" =>
               /\ startsWith(first, <<"T","h","i","s"," ","i","s"," ","a"," ","r","e","g","i","o","n","a","l"," ","n","o","t","i","f","i","c","a","t","i","o","n"," ","c","a","t","e","g","o","r","i","z","e","d"," ","a","s"," ">> \o label)
               /\ first[Len(<<"T","h","i","s"," ","i","s"," ","a"," ","r","e","g","i","o","n","a","l"," ","n","o","t","i","f","i","c","a","t","i","o","n"," ","c","a","t","e","g","o","r","i","z","e","d"," ","a","s"," ">>) + Len(label) + 1]
                      \in {":", "."}

\* the population rule raises the level: headline and description both name
\* the raised level, not the base level
C19_Witness ==
    /\ mode = "storm"
    /\ selection["tornado"].value = "damaging_reported"
    /\ majorPopPath
    /\ baseOverall = 3
    /\ finalLevelId = 4
    /\ startsWith(headlineBase, <<"E","M","E","R","G","E","N","C","Y",":"," ","D","A","M","A","G","I","N","G"," ","T","O","R","N","A","D","O">>)
    /\ startsWith(descriptionParagraphs[1],
                  <<"T","h","i","s"," ","n","o","t","i","f","i","c","a","t","i","o","n"," ","i","s"," ","c","a","t","e","g","o","r","i","z","e","d"," ","a","s"," ","E","m","e","r","g","e","n","c","y",":"," ","L","i","f","e","-","t","h","r","e","a","t","e","n","i","n","g"," ","s","i","t","u","a","t","i","o","n",".">>)

-----------------------------------------------------------------------------
(* Order of the headline phrases *)

\* C20: in the storm headline the hazard phrases are exactly those of the
\* hazards whose selected option has level > 0, one phrase per such hazard,
\* ordered by option level descending and, among equal levels, by the fixed
\* priority tornado, rotation, hail, wind, flooding, funnel; the order is a
\* function of the selection alone, whatever the final level and the
\* population flags are.
C20_PhraseOrder ==
    mode = "storm" =>
        LET chosen == {k \in HazardKeys : selection[k].level > 0}
            prio == [k \in HazardKeys |->
                       CASE k = "tornado" -> 1 [] k = "rotation" -> 2 [] k = "hail" -> 3
                         [] k = "wind" -> 4 [] k = "flooding" -> 5 [] k = "funnel" -> 6]
            before(a, b) == \/ selection[a].level > selection[b].level
                            \/ /\ selection[a].level = selection[b].level
                               /\ prio[a] < prio[b]
            place == [k \in chosen |-> 1 + Cardinality({a \in chosen : before(a, k)})]
            phrases == headlinePhrases(selection, status)
            text == IF chosen = {} THEN <<"H","a","z","a","r","d","o","u","s"," ","W","e","a","t","h","e","r"," ","D","e","t","e","c","t","e","d">>
                    ELSE joinForHeadline(phrases)
        IN  /\ Len(phrases) = Cardinality(chosen)
            /\ \A k \in chosen :
                  /\ place[k] \in 1..Len(phrases)
                  /\ <<phrases[place[k]]>>
                        = headlinePhrase(k, selection[k].value, headlineStat(k, status))
            /\ headlineBase
                  = toUpperCase(finalLevelMeta.label) \o <<":"," ">> \o caseTransform(text, finalLevelId)

\* two pairs of equal levels: hail before wind at level 3, tornado before
\* flooding at level 2, and a final level raised by the hail population flag
C20_Witness ==
    /\ mode = "storm"
    /\ selection["tornado"].value = "reported"
    /\ selection["flooding"].value = "flooding"
    /\ selection["hail"].value = "very_large"
    /\ selection["wind"].value = "damaging"
    /\ selection["rotation"].value = "none"
    /\ selection["funnel"].value = "reported"
    /\ hailMajorPop
    /\ baseOverall = 3
    /\ finalLevelId = 4
    /\ headlinePhrases(selection, status)
         = << <<"V","e","r","y"," ","L","a","r","g","e"," ","H","a","i","l"," ","D","e","t","e","c","t","e","d">>, <<"D","a","m","a","g","i","n","g"," ","W","i","n","d","s"," ","D","e","t","e","c","t","e","d">>, <<"T","o","r","n","a","d","o"," ","R","e","p","o","r","t","e","d">>,
              <<"F","l","o","o","d","i","n","g"," ","D","e","t","e","c","t","e","d">>, <<"F","u","n","n","e","l"," ","C","l","o","u","d"," ","R","e","p","o","r","t","e","d">> >>

-----------------------------------------------------------------------------
(* Detected / reported *)

endsWith(s, p) == Len(p) <= Len(s) /\ SubSeq(s, Len(s) - Len(p) + 1, Len(s)) = p

\* C21: in the headline the phrase for rotation always ends in "Detected" and
\* the phrases for tornado and funnel always end in "Reported", whatever the
\* status record holds for those keys; the phrase for hail, wind and flooding
\* ends in "Reported" exactly when that hazard's status is "reported" and in
\* "Detected" otherwise, and the description's phrase for hail, wind and
\* flooding carries the same word.
C21_StatusAsymmetry ==
    mode = "storm" =>
        LET items == headlineItems(selection)
            phrases == headlinePhrases(selection, status)
            threats == stormP2(cells) \o stormP3(cells)
        IN  /\ Len(phrases) = Len(items)
            /\ \A i \in 1..Len(items) :
                  LET key == items[i].key
                      reported == status[key] = "reported"
                      desc == descFor(cells, key, items[i].value)[1]
                  IN  /\ includes(toUpperCase(headlineBase), toUpperCase(phrases[i]))
                      /\ key = "rotation" => endsWith(phrases[i], <<"D","e","t","e","c","t","e","d">>)
                      /\ key \in {"tornado", "funnel"} => endsWith(phrases[i], <<"R","e","p","o","r","t","e","d">>)
                      /\ key \in {"hail", "wind", "flooding"} =>
                            /\ endsWith(phrases[i], <<"R","e","p","o","r","t","e","d">>) <=> reported
                            /\ endsWith(phrases[i], <<"D","e","t","e","c","t","e","d">>) <=> ~reported
                            /\ endsWith(desc, <<" ","r","e","p","o","r","t","e","d">>) <=> reported
                            /\ endsWith(desc, <<" ","d","e","t","e","c","t","e","d">>) <=> ~reported
                            /\ includes(threats, desc)

\* the status record contradicts the fixed words of rotation and tornado, and
\* hail follows its own status
C21_Witness ==
    /\ mode = "storm"
    /\ status["rotation"] = "reported"
    /\ status["tornado"] = "detected"
    /\ status["funnel"] = "detected"
    /\ status["hail"] = "reported"
    /\ selection["rotation"].value = "strong"
    /\ selection["hail"].value = "large"
    /\ headlineBase = <<"A","C","T",":"," ","S","t","r","o","n","g"," ","R","o","t","a","t","i","o","n"," ","D","e","t","e","c","t","e","d"," ","&"," ","L","a","r","g","e"," ","H","a","i","l"," ","R","e","p","o","r","t","e","d">>
    /\ stormP3(cells) = <<"A","d","d","i","t","i","o","n","a","l"," ","t","h","r","e","a","t",":"," ","l","a","r","g","e"," ","h","a","i","l"," ","r","e","p","o","r","t","e","d",".">>

-----------------------------------------------------------------------------
(* Fallback text and catalog coverage *)

\* C22: the storm headline uses the fallback text "Hazardous Weather Detected"
\* exactly when all six hazards are "none"; every option of the catalog with
\* level > 0 has a non-null headline phrase and a non-null description phrase,
\* so every selected hazard has its phrase in the headline and in the
\* description.
C22_FallbackOnlyWhenNone ==
    mode = "storm" =>
        LET fallback == <<"H","a","z","a","r","d","o","u","s"," ","W","e","a","t","h","e","r"," ","D","e","t","e","c","t","e","d">>
            chosen == {k \in HazardKeys : selection[k].level > 0}
            phrases == headlinePhrases(selection, status)
            threats == stormP2(cells) \o stormP3(cells)
        IN  /\ (stormTextRaw(selection, status) = fallback) <=> (chosen = {})
            /\ (chosen = {}) <=> (\A k \in HazardKeys : selection[k].value = "none")
            /\ (headlineBase = toUpperCase(finalLevelMeta.label) \o <<":"," ">> \o fallback)
                  <=> (chosen = {})
            /\ \A k \in HazardKeys : \A i \in 1..Len(HAZARDS[k]) :
                  HAZARDS[k][i].level > 0 =>
                      /\ \A st \in HazardStatuses :
                            /\ Len(headlinePhrase(k, HAZARDS[k][i].value, st)) = 1
                            /\ Len(headlinePhrase(k, HAZARDS[k][i].value, st)[1]) > 0
                      /\ Len(descFor(cells, k, HAZARDS[k][i].value)) = 1
                      /\ Len(descFor(cells, k, HAZARDS[k][i].value)[1]) > 0
            /\ Len(phrases) = Cardinality(chosen)
            /\ \A k \in chosen :
                  /\ \E i \in 1..Len(phrases) :
                        <<phrases[i]>> = headlinePhrase(k, selection[k].value, headlineStat(k, status))
                  /\ includes(threats, descFor(cells, k, selection[k].value)[1])

\* one hazard of the lowest level: its phrase, not the fallback text
C22_Witness ==
    /\ mode = "storm"
    /\ selection["funnel"].value = "reported"
    /\ \A k \in HazardKeys \ {"funnel"} : selection[k].value = "none"
    /\ finalLevelId = 1
    /\ headlineBase = <<"P","R","E","P","A","R","E",":"," ","F","u","n","n","e","l"," ","C","l","o","u","d"," ","R","e","p","o","r","t","e","d">>
    /\ startsWith(stormP2(cells), <<"P","r","i","m","a","r","y"," ","t","h","r","e","a","t",":"," ","a"," ","f","u","n","n","e","l"," ","c","l","o","u","d"," ","h","a","s"," ","b","e","e","n"," ","r","e","p","o","r","t","e","d",";"," ">>)

-----------------------------------------------------------------------------
(* Small words *)

\* the words nytTitleCase returns unchanged
keptAsIs(w) == hasLetters(w) /\ w = toUpperCase(w) /\ Len(w) > 1

\* C23 as stated: a word or hyphen-segment in the small-word set is lower-cased
\* unless it is the first or last word of the whole string or the first or last
\* segment of a hyphenated word; every other segment gets its first letter
\* capitalised.
C23_Original ==
    LET arr == splitWhitespace(callStr)
        out == splitWhitespace(nytTitleCase(callStr))
        n == Len(arr)
    IN  /\ Len(out) = n
        /\ \A i \in 1..n : ~keptAsIs(arr[i]) =>
              LET segs == split(toLowerCase(arr[i]), "-")
                  outs == split(out[i], "-")
                  m == Len(segs)
                  exempt(j) == IF m = 1 THEN i = 1 \/ i = n ELSE j = 1 \/ j = m
              IN  /\ Len(outs) = m
                  /\ \A j \in 1..m :
                        outs[j] = IF segs[j] \in small /\ ~exempt(j)
                                  THEN segs[j] ELSE capWord(segs[j])

\* C23: in nytTitleCase a word that is not returned unchanged is lower-cased
\* and split at its hyphens; a segment in the small-word set stays lower-case
\* unless it is the first segment of the first word or the last segment of
\* the last word of the whole string, and every other segment gets its first
\* letter capitalised.  In a hyphenated word in the middle of the string a
\* small first or last segment stays lower-case.
C23_SmallWords ==
    LET arr == splitWhitespace(callStr)
        out == splitWhitespace(nytTitleCase(callStr))
        n == Len(arr)
    IN  /\ Len(out) = n
        /\ \A i \in 1..n : ~keptAsIs(arr[i]) =>
              LET segs == split(toLowerCase(arr[i]), "-")
                  outs == split(out[i], "-")
                  m == Len(segs)
                  exempt(j) == (i = 1 /\ j = 1) \/ (i = n /\ j = m)
              IN  /\ Len(outs) = m
                  /\ \A j \in 1..m :
                        outs[j] = IF segs[j] \in small /\ ~exempt(j)
                                  THEN segs[j] ELSE capWord(segs[j])

\* a hyphenated word in the middle whose first segment is a small word
C23_Witness ==
    /\ callStr = <<"a"," ","i","n","-","x"," ","a">>
    /\ nytTitleCase(callStr) = <<"A"," ","i","n","-","X"," ","A">>

-----------------------------------------------------------------------------
(* Regional phrases *)

\* C24: the regional headline phrases are exactly <<"Funnel Cloud Potential">>
\* for choice = funnel, <<"Severe Thunderstorm Potential">> plus "Tornado
\* Risk" as a second phrase exactly when the tornado-risk flag is set for
\* choice = severe, and the fallback "Weather Potential" with no choice; a
\* change of the choice leaves the tornado-risk flag as it is, and the flag
\* contributes to the headline and to the description only while choice =
\* severe.
C24_RegionalPhrases ==
    /\ [](mode = "regional" =>
            LET parts == regionalParts(regionalChoice, regionalTornadoRisk)
                torLine == <<"T","o","r","n","a","d","o"," ","r","i","s","k",":"," ">>
            IN  /\ regionalChoice = "funnel" =>
                      /\ parts = << <<"F","u","n","n","e","l"," ","C","l","o","u","d"," ","P","o","t","e","n","t","i","a","l">> >>
                      /\ headlineBase = <<"P","R","E","P","A","R","E",":"," ","F","u","n","n","e","l"," ","C","l","o","u","d"," ","P","o","t","e","n","t","i","a","l">>
                /\ (regionalChoice = "severe" /\ ~regionalTornadoRisk) =>
                      /\ parts = << <<"S","e","v","e","r","e"," ","T","h","u","n","d","e","r","s","t","o","r","m"," ","P","o","t","e","n","t","i","a","l">> >>
                      /\ headlineBase = <<"P","R","E","P","A","R","E",":"," ","S","e","v","e","r","e"," ","T","h","u","n","d","e","r","s","t","o","r","m"," ","P","o","t","e","n","t","i","a","l">>
                /\ (regionalChoice = "severe" /\ regionalTornadoRisk) =>
                      /\ parts = << <<"S","e","v","e","r","e"," ","T","h","u","n","d","e","r","s","t","o","r","m"," ","P","o","t","e","n","t","i","a","l">>, <<"T","o","r","n","a","d","o"," ","R","i","s","k">> >>
                      /\ headlineBase
                            = <<"P","R","E","P","A","R","E",":"," ","S","e","v","e","r","e"," ","T","h","u","n","d","e","r","s","t","o","r","m"," ","P","o","t","e","n","t","i","a","l"," ","&"," ","T","o","r","n","a","d","o"," ","R","i","s","k">>
                /\ regionalChoice \notin {"funnel", "severe"} =>
                      /\ parts = <<>>
                      /\ headlineBase = <<"P","R","E","P","A","R","E",":"," ","W","e","a","t","h","e","r"," ","P","o","t","e","n","t","i","a","l">>
                /\ includes(description, torLine)
                      <=> (regionalChoice = "severe" /\ regionalTornadoRisk))
    /\ [][regionalChoice' # regionalChoice => regionalTornadoRisk' = regionalTornadoRisk]_vars

\* the flag was left set and the choice is funnel: neither text mentions it
C24_Witness ==
    /\ mode = "regional"
    /\ regionalChoice = "funnel"
    /\ regionalTornadoRisk
    /\ headlineBase = <<"P","R","E","P","A","R","E",":"," ","F","u","n","n","e","l"," ","C","l","o","u","d"," ","P","o","t","e","n","t","i","a","l">>
    /\ Len(descriptionParagraphs) = 5
    /\ ~includes(description, <<"T","o","r","n","a","d","o"," ","r","i","s","k">>)

-----------------------------------------------------------------------------
(* Headline order and description order *)

\* C25: orderedHazards and the sort inside buildHeadlineStorm give the same
\* sequence of hazard keys for every selection; the description's primary
\* threat is the hazard whose phrase comes first in the storm headline and the
\* additional threats are the remaining headline hazards in the same order.
C25_SameOrder ==
    mode = "storm" =>
        LET items == headlineItems(selection)
            ordered == orderedHazards(selection)
            n == Len(items)
            phraseOf(i) == descFor(cells, items[i].key, items[i].value)[1]
            extras == extrasPhrases(cells)
        IN  /\ Len(ordered) = n
            /\ \A i \in 1..n : /\ ordered[i].key = items[i].key
                                /\ ordered[i].opt.value = items[i].value
            /\ n >= 1 =>
                  /\ primaryKey(cells) = items[1].key
                  /\ stormP2(cells) = <<"P","r","i","m","a","r","y"," ","t","h","r","e","a","t",":"," ">> \o phraseOf(1) \o <<".">>
            /\ n = 0 => stormP2(cells) = <<>>
            /\ Len(extras) = Max(n - 1, 0)
            /\ \A i \in 2..n : extras[i - 1] = phraseOf(i)

\* the priority order and the level order differ: hail leads, tornado and
\* wind follow in priority order
C25_Witness ==
    /\ mode = "storm"
    /\ selection["tornado"].value = "reported"
    /\ selection["hail"].value = "very_large"
    /\ selection["wind"].value = "severe"
    /\ selection["rotation"].value = "none"
    /\ selection["flooding"].value = "none"
    /\ selection["funnel"].value = "none"
    /\ headlinePhrases(selection, status)
         = << <<"V","e","r","y"," ","L","a","r","g","e"," ","H","a","i","l"," ","D","e","t","e","c","t","e","d">>, <<"T","o","r","n","a","d","o"," ","R","e","p","o","r","t","e","d">>, <<"S","e","v","e","r","e"," ","W","i","n","d","s"," ","D","e","t","e","c","t","e","d">> >>
    /\ stormP2(cells) = <<"P","r","i","m","a","r","y"," ","t","h","r","e","a","t",":"," ","v","e","r","y"," ","l","a","r","g","e"," ","h","a","i","l"," ","d","e","t","e","c","t","e","d",".">>
    /\ stormP3(cells) = <<"A","d","d","i","t","i","o","n","a","l"," ","t","h","r","e","a","t","s",":"," ","a"," ","t","o","r","n","a","d","o",","," ","r","e","p","o","r","t","e","d"," ","&"," ","s","e","v","e","r","e"," ","w","i","n","d","s"," ","d","e","t","e","c","t","e","d",".">>

-----------------------------------------------------------------------------
(* Safety paragraph *)

\* C26: the safety paragraph is chosen by the primary hazard only: it opens
\* with the guidance of the primary hazard's key (for rotation, of the selected
\* rotation value, and for rotation = strong of majorPopPath); it holds the
\* generic sentence "Stay aware and be ready to act quickly if conditions
\* worsen." exactly when no hazard is selected; it never has zero action
\* sentences and it always ends with the "Stay tuned ..." sentence.
C26_SafetyByPrimary ==
    mode = "storm" =>
        LET items == headlineItems(selection)
            key == IF Len(items) = 0 THEN "none" ELSE items[1].key
            rot == selection["rotation"].value
            opening ==
                CASE key = "none" -> <<"S","t","a","y"," ","a","w","a","r","e"," ","a","n","d"," ","b","e"," ","r","e","a","d","y"," ","t","o"," ","a","c","t"," ","q","u","i","c","k","l","y"," ","i","f"," ","c","o","n","d","i","t","i","o","n","s"," ","w","o","r","s","e","n",".">>
                  [] key = "tornado" -> <<"G","o"," ","t","o"," ","t","h","e"," ","l","o","w","e","s","t"," ","l","e","v","e","l"," ","o","r"," ","a","n"," ","i","n","t","e","r","i","o","r"," ","r","o","o","m"," ","a","w","a","y"," ","f","r","o","m"," ","w","i","n","d","o","w","s",".">>
                  [] key = "funnel" -> <<"B","e"," ","r","e","a","d","y"," ","t","o"," ","s","h","e","l","t","e","r"," ","q","u","i","c","k","l","y"," ","i","f"," ","t","h","e"," ","f","u","n","n","e","l"," ","a","p","p","r","o","a","c","h","e","s",".">>
                  [] key = "hail" -> <<"M","o","v","e"," ","i","n","d","o","o","r","s"," ","a","n","d"," ","s","t","a","y"," ","a","w","a","y"," ","f","r","o","m"," ","w","i","n","d","o","w","s"," ","a","n","d"," ","s","k","y","l","i","g","h","t","s",".">>
                  [] key = "wind" -> <<"M","o","v","e"," ","t","o"," ","a","n"," ","i","n","t","e","r","i","o","r"," ","r","o","o","m"," ","a","w","a","y"," ","f","r","o","m"," ","w","i","n","d","o","w","s",".">>
                  [] key = "flooding" -> <<"N","e","v","e","r"," ","d","r","i","v","e"," ","t","h","r","o","u","g","h"," ","f","l","o","o","d","e","d"," ","r","o","a","d","s",";"," ","t","u","r","n"," ","a","r","o","u","n","d"," ","i","n","s","t","e","a","d",".">>
                  [] key = "rotation" /\ rot = "weak" ->
                       <<"S","t","a","y"," ","c","l","o","s","e"," ","t","o"," ","s","t","u","r","d","y"," ","s","h","e","l","t","e","r"," ","a","n","d"," ","b","e"," ","r","e","a","d","y"," ","t","o"," ","m","o","v","e"," ","i","n","d","o","o","r","s"," ","q","u","i","c","k","l","y"," ","i","f"," ","t","h","e"," ","s","t","o","r","m"," ","a","p","p","r","o","a","c","h","e","s",".">>
                  [] key = "rotation" /\ rot = "organized" ->
                       <<"B","e"," ","p","r","e","p","a","r","e","d"," ","t","o"," ","t","a","k","e"," ","s","h","e","l","t","e","r"," ","q","u","i","c","k","l","y"," ","i","n"," ","a","n"," ","i","n","t","e","r","i","o","r"," ","r","o","o","m"," ","a","w","a","y"," ","f","r","o","m"," ","w","i","n","d","o","w","s",".">>
                  [] key = "rotation" /\ rot = "strong" /\ majorPopPath ->
                       <<"T","a","k","e"," ","s","h","e","l","t","e","r"," ","n","o","w"," ","o","n"," ","t","h","e"," ","l","o","w","e","s","t"," ","l","e","v","e","l"," ","o","r"," ","a","n"," ","i","n","t","e","r","i","o","r"," ","r","o","o","m"," ","a","w","a","y"," ","f","r","o","m"," ","w","i","n","d","o","w","s",".">>
                  [] key = "rotation" /\ rot = "strong" /\ ~majorPopPath ->
                       <<"A","c","t"," ","n","o","w",":"," ","m","o","v","e"," ","t","o"," ","a","n"," ","i","n","t","e","r","i","o","r"," ","r","o","o","m"," ","a","w","a","y"," ","f","r","o","m"," ","w","i","n","d","o","w","s",".">>
                  [] key = "rotation" /\ rot = "intense" ->
                       <<"T","a","k","e"," ","s","h","e","l","t","e","r"," ","n","o","w"," ","o","n"," ","t","h","e"," ","l","o","w","e","s","t"," ","l","e","v","e","l"," ","i","n"," ","a"," ","s","t","u","r","d","y"," ","b","u","i","l","d","i","n","g",".">>
            lines == safetyLines(cells)
            p4 == stormP4(cells)
            closing == <<"S","t","a","y"," ","t","u","n","e","d"," ","f","o","r"," ","f","u","t","u","r","e"," ","I","n","s","t","a","n","t"," ","W","e","a","t","h","e","r"," ","c","u","s","t","o","m"," ","n","o","t","i","f","i","c","a","t","i","o","n","s"," ","a","n","d"," ","a","l","e","r","t","s"," ","f","r","o","m"," ","E","n","v","i","r","o","n","m","e","n","t"," ","C","a","n","a","d","a",".">>
        IN  /\ Len(lines) >= 2
            /\ \A i \in 1..Len(lines) : Len(lines[i]) > 0
            /\ lines[1] = opening
            /\ lines[Len(lines)] = closing
            /\ \A i \in 1..(Len(lines) - 1) : lines[i] # closing
            /\ (\E i \in 1..Len(lines) :
                    lines[i] = <<"S","t","a","y"," ","a","w","a","r","e"," ","a","n","d"," ","b","e"," ","r","e","a","d","y"," ","t","o"," ","a","c","t"," ","q","u","i","c","k","l","y"," ","i","f"," ","c","o","n","d","i","t","i","o","n","s"," ","w","o","r","s","e","n",".">>)
                  <=> (\A k \in HazardKeys : selection[k].level = 0)
            /\ startsWith(p4, <<"W","h","a","t"," ","y","o","u"," ","s","h","o","u","l","d"," ","d","o",":"," ">> \o opening \o <<" ">>)
            /\ endsWith(p4, <<" ">> \o closing)
            /\ includes(description, p4)

\* strong rotation leads over hail of the same level and the population flag
\* picks the block
C26_Witness ==
    /\ mode = "storm"
    /\ selection["rotation"].value = "strong"
    /\ selection["hail"].value = "severe"
    /\ selection["tornado"].value = "none"
    /\ selection["wind"].value = "sub_severe"
    /\ majorPopPath
    /\ primaryKey(cells) = "rotation"
    /\ stormP4(cells) = <<"W","h","a","t"," ","y","o","u"," ","s","h","o","u","l","d"," ","d","o",":"," ","T","a","k","e"," ","s","h","e","l","t","e","r"," ","n","o","w"," ","o","n"," ","t","h","e"," ","l","o","w","e","s","t"," ","l","e","v","e","l"," ","o","r"," ","a","n"," ","i","n","t","e","r","i","o","r"," ","r","o","o","m"," ","a","w","a","y"," ","f","r","o","m"," ","w","i","n","d","o","w","s","."," ","P","r","o","t","e","c","t"," ","y","o","u","r"," ","h","e","a","d"," ","a","n","d"," ","n","e","c","k",";"," ","a","v","o","i","d"," ","l","a","r","g","e"," ","o","p","e","n"," ","r","o","o","m","s","."," ","S","t","a","y"," ","t","u","n","e","d"," ","f","o","r"," ","f","u","t","u","r","e"," ","I","n","s","t","a","n","t"," ","W","e","a","t","h","e","r"," ","c","u","s","t","o","m"," ","n","o","t","i","f","i","c","a","t","i","o","n","s"," ","a","n","d"," ","a","l","e","r","t","s"," ","f","r","o","m"," ","E","n","v","i","r","o","n","m","e","n","t"," ","C","a","n","a","d","a",".">>

-----------------------------------------------------------------------------
(* Population flags *)

\* C27: in every state reachable through the UI, majorPopPath = TRUE implies
\* that rotation is strong or intense or tornado is reported or
\* damaging_reported; the flag shared by rotation and tornado is never left
\* set when neither hazard can use it.
C27_MajorPopPathInUse ==
    majorPopPath =>
        \/ selection["rotation"].value \in {"strong", "intense"}
        \/ selection["tornado"].value \in {"reported", "damaging_reported"}

\* the flag is set and the rotation card alone can use it
C27_Witness ==
    /\ mode = "storm"
    /\ majorPopPath
    /\ selection["rotation"].value = "intense"
    /\ selection["tornado"].value = "none"
    /\ finalLevelId = 4

\* C28 as stated: in every state reachable through the UI, hailMajorPop = TRUE
\* implies that the hail selection is large or very_large; the flag is cleared
\* whenever hail moves to an option for which its checkbox is hidden.
C28_Original ==
    /\ [](hailMajorPop => selection["hail"].value \in {"large", "very_large"})
    /\ [][(/\ selection'["hail"] # selection["hail"]
            /\ selection'["hail"].value \notin {"large", "very_large"})
           => ~hailMajorPop']_vars

-----------------------------------------------------------------------------
(* Monotonicity *)

\* C29 as stated: through the UI in storm mode, a single hazard-select change
\* that moves one hazard to an option of higher or equal level than its
\* previous option, the handler's writes to the flags included, never lowers
\* the displayed final severity level.
C29_Original ==
    [][(/\ mode = "storm"
        /\ mode' = "storm"
        /\ \E k \in HazardKeys :
              /\ selection'[k] # selection[k]
              /\ selection'[k].level >= selection[k].level
              /\ \A o \in HazardKeys \ {k} : selection'[o] = selection[o])
       => finalLevelIdOf(cells') >= finalLevelId]_vars

\* the final level of storm mode for a selection and the two flags
stormLevel(sel, majorPop, hailPop) ==
    computeFinalLevel(resolveOverallLevel(sel), sel, majorPop, hailPop, "storm")

\* C30: as a pure function the severity resolver is monotone: in storm mode
\* with majorPopPath and hailMajorPop held fixed, replacing one hazard's option
\* by a later option of the same group's option list never lowers the final
\* level, and switching either flag from false to true never lowers it.
C30_Monotone ==
    mode = "storm" =>
        /\ finalLevelId = stormLevel(selection, majorPopPath, hailMajorPop)
        /\ \A k \in HazardKeys : \A i \in 1..Len(HAZARDS[k]) : \A j \in (i + 1)..Len(HAZARDS[k]) :
              selection[k] = HAZARDS[k][i] =>
                  stormLevel([selection EXCEPT ![k] = HAZARDS[k][j]], majorPopPath, hailMajorPop)
                      >= finalLevelId
        /\ stormLevel(selection, TRUE, hailMajorPop) >= stormLevel(selection, FALSE, hailMajorPop)
        /\ stormLevel(selection, majorPopPath, TRUE) >= stormLevel(selection, majorPopPath, FALSE)

\* a rule, not the option's level, sets the level, and the next option of the
\* list raises it further
C30_Witness ==
    /\ mode = "storm"
    /\ selection["hail"].value = "large"
    /\ selection["rotation"].value = "strong"
    /\ selection["wind"].value = "none"
    /\ hailMajorPop
    /\ ~majorPopPath
    /\ resolveOverallLevel(selection) = 2
    /\ finalLevelId = 3
    /\ stormLevel([selection EXCEPT !["hail"] = HAZARDS["hail"][6]], majorPopPath, hailMajorPop) = 4
    /\ stormLevel(selection, TRUE, hailMajorPop) = 3
    /\ stormLevel(selection, majorPopPath, FALSE) = 2

=============================================================================
